---------------------------- MODULE Spec2Model ----------------------------
(***************************************************************************)
(* A model of the MySQL dialect of lib/sqlalchemy/dialects/mysql/base.py:  *)
(* the schema reflector (MySQLSchemaReflector), the dialect's quoting and  *)
(* per-connection detection state (MySQLDialect) and the execution         *)
(* context's post_exec hook (MySQLExecutionContext).                       *)
(*                                                                         *)
(* Text is a sequence of lexemes.  A lexeme is either one character that   *)
(* is not a word character (a space, a quote, a parenthesis, a comma ...)  *)
(* or a maximal run of word characters (\w+).  The regular expressions of  *)
(* the source are matched lexeme by lexeme; no pattern of the source can   *)
(* match a proper part of a run of word characters of the lines used.      *)
(***************************************************************************)
EXTENDS Integers, Sequences, FiniteSets, TLC

(***************************************************************************)
(* Lexemes                                                                 *)
(***************************************************************************)
SP == " "
\* The backtick; the string "`" is not accepted by the parser.
BQ == "BACKTICK"
DQ == "\""
SQ == "'"
LP == "("
RP == ")"
CM == ","

\* Lexemes that are not runs of word characters.
NonWord == {SP, BQ, DQ, SQ, LP, RP, CM, ".", "=", "<", ">", "%", ";"}

\* Runs of decimal digits (\d+).
DigitLexemes == {"0", "1", "01", "2", "4", "5", "10", "11", "32"}

\* int(v) of a run of digits.
IntOf(v) ==
  CASE v = "0" -> 0 [] v = "1" -> 1 [] v = "01" -> 1 [] v = "2" -> 2
    [] v = "4" -> 4 [] v = "5" -> 5 [] v = "10" -> 10 [] v = "11" -> 11
    [] v = "32" -> 32

\* "%s" % n and "%d" % n of an integer n: its decimal digits.
Decimal(n) == CHOOSE v \in DigitLexemes \ {"01"} : IntOf(v) = n

IsWord(t) == t \notin NonWord
IsDigits(t) == t \in DigitLexemes
IsSpace(t) == t = SP

\* re.I: the lower-case spellings that occur in the text of the model, each
\* with its upper-case spelling.
LowerUpper ==
  {<<"primary", "PRIMARY">>, <<"key", "KEY">>, <<"unsigned", "UNSIGNED">>,
   <<"zerofill", "ZEROFILL">>, <<"set", "SET">>, <<"names", "NAMES">>,
   <<"session", "SESSION">>, <<"global", "GLOBAL">>, <<"collate", "COLLATE">>,
   <<"comment", "COMMENT">>}

Upper(t) ==
  IF \E lu \in LowerUpper : lu[1] = t
    THEN (CHOOSE lu \in LowerUpper : lu[1] = t)[2]
    ELSE t

\* Op applied to the value v: names a value that is used more than once.
Bind(v, Op(_)) == Op(v)

\* The lexeme at position p of s, or the empty string past the end.
At(s, p) == IF p >= 1 /\ p <= Len(s) THEN s[p] ELSE ""

\* s[a..b], empty when b < a.
Slice(s, a, b) == IF b < a THEN <<>> ELSE SubSeq(s, a, b)

\* str.startswith(prefix), case-sensitive.
StartsWith(s, prefix) ==
  /\ Len(s) >= Len(prefix)
  /\ \A k \in 1..Len(prefix) : s[k] = prefix[k]

\* The literal lit (a sequence of lexemes) matches s at p under re.I.
LitAt(s, p, lit) ==
  /\ p >= 1
  /\ p + Len(lit) - 1 <= Len(s)
  /\ \A k \in 1..Len(lit) : Upper(s[p + k - 1]) = Upper(lit[k])

\* ' +' at p: the position after the run of spaces, 0 when there is none.
RECURSIVE SkipSpaces(_, _)
SkipSpaces(s, p) == IF At(s, p) = SP THEN SkipSpaces(s, p + 1) ELSE p

Spaces1(s, p) == IF At(s, p) = SP THEN SkipSpaces(s, p) ELSE 0

\* '\S+' at p: the position after the maximal run of non-space lexemes.
RECURSIVE SkipNonSpace(_, _)
SkipNonSpace(s, p) ==
  IF p >= 1 /\ p <= Len(s) /\ s[p] # SP THEN SkipNonSpace(s, p + 1) ELSE p

(***************************************************************************)
(* Quoted identifiers: iq (?:esc_fq|[^fq])+ fq                             *)
(***************************************************************************)
\* The position of the closing quote of the identifier whose first lexeme is
\* at p, 0 when there is none.  A doubled closing quote is an escaped quote
\* and part of the name.
RECURSIVE NameClose(_, _, _, _)
NameClose(s, p, fq, n) ==
  IF p > Len(s) THEN 0
  ELSE IF s[p] # fq THEN NameClose(s, p + 1, fq, n + 1)
  ELSE IF At(s, p + 1) = fq THEN NameClose(s, p + 2, fq, n + 1)
  ELSE IF n > 0 THEN p
  ELSE 0

\* A quoted identifier at p: [ok, name, end], end the position after it.
QuotedAt(s, p, q) ==
  IF At(s, p) # q THEN [ok |-> FALSE, name |-> <<>>, end |-> 0]
  ELSE Bind(NameClose(s, p + 1, q, 0), LAMBDA c :
         IF c = 0 THEN [ok |-> FALSE, name |-> <<>>, end |-> 0]
         ELSE [ok |-> TRUE, name |-> Slice(s, p + 1, c - 1), end |-> c + 1])

(***************************************************************************)
(* _re_csv_str, _re_csv_int and the argument list of a column type         *)
(***************************************************************************)
\* '(?:''|[^'])*' at p: the position after the literal, 0 when none.
RECURSIVE StrLitClose(_, _)
StrLitClose(s, p) ==
  IF p > Len(s) THEN 0
  ELSE IF s[p] # SQ THEN StrLitClose(s, p + 1)
  ELSE IF At(s, p + 1) = SQ THEN StrLitClose(s, p + 2)
  ELSE p + 1

StrLitAt(s, p) == IF At(s, p) = SQ THEN StrLitClose(s, p + 1) ELSE 0

\* (?:'...',?)+ at p: the position after the last literal or comma, 0 when
\* no literal starts at p.
RECURSIVE StrListEnd(_, _)
StrListEnd(s, p) ==
  Bind(StrLitAt(s, p), LAMBDA e :
    IF e = 0 THEN 0
    ELSE Bind(IF At(s, e) = CM THEN e + 1 ELSE e, LAMBDA e2 :
           Bind(StrListEnd(s, e2), LAMBDA more :
             IF more # 0 THEN more ELSE e2)))

\* (?P<arg>...) followed by \) at p: the position of the closing parenthesis,
\* 0 when none.  With lists (_re_column) the alternatives are \d+, \d+,\d+ and
\* (?:'...',?)+; without (_re_column_loose) the last one is a single literal
\* that is not empty.
ArgEnd(s, p, lists) ==
  IF IsDigits(At(s, p)) /\ At(s, p + 1) = RP THEN p + 1
  ELSE IF IsDigits(At(s, p)) /\ At(s, p + 1) = CM /\ IsDigits(At(s, p + 2))
          /\ At(s, p + 3) = RP THEN p + 3
  ELSE IF lists
    THEN Bind(StrListEnd(s, p), LAMBDA e :
           IF e # 0 /\ At(s, e) = RP THEN e ELSE 0)
    ELSE Bind(StrLitAt(s, p), LAMBDA e :
           IF e # 0 /\ e > p + 2 /\ At(s, e) = RP THEN e ELSE 0)

\* _re_csv_int.findall: the runs of digits of s, in order, each as a text of
\* one lexeme.
RECURSIVE CsvInt(_)
CsvInt(s) ==
  IF s = <<>> THEN <<>>
  ELSE IF IsDigits(Head(s)) THEN <<<<Head(s)>>>> \o CsvInt(Tail(s))
  ELSE CsvInt(Tail(s))

\* _re_csv_str.findall: the quoted literals of s, quotes included, in order.
RECURSIVE CsvStr(_, _)
CsvStr(s, p) ==
  IF p > Len(s) THEN <<>>
  ELSE Bind(StrLitAt(s, p), LAMBDA e :
         IF e = 0 THEN CsvStr(s, p + 1)
         ELSE <<Slice(s, p, e - 1)>> \o CsvStr(s, e))

(***************************************************************************)
(* _re_column and _re_column_loose                                         *)
(***************************************************************************)
NoColumn ==
  [ok |-> FALSE, full |-> FALSE, name |-> <<>>, coltype |-> "", arg |-> <<>>,
   unsigned |-> FALSE, zerofill |-> FALSE, charset |-> "", collate |-> "",
   notnull |-> FALSE, default |-> <<>>, autoincr |-> FALSE]

\* The first part of both patterns: two spaces, the quoted name, ' +' and the
\* type word.  [ok, name, coltype, end].
ColumnHead(line, q) ==
  Bind(QuotedAt(line, 3, q), LAMBDA id :
    Bind(Spaces1(line, id.end), LAMBDA sp :
      IF At(line, 1) = SP /\ At(line, 2) = SP /\ id.ok /\ sp # 0
         /\ sp <= Len(line) /\ IsWord(line[sp])
        THEN [ok |-> TRUE, name |-> id.name, coltype |-> line[sp], end |-> sp + 1]
        ELSE [ok |-> FALSE, name |-> <<>>, coltype |-> "", end |-> 0]))

\* ' +' followed by the literal lit at p: the position after it, 0 when none.
KeywordAt(line, p, lit) ==
  Bind(Spaces1(line, p), LAMBDA sp :
    IF sp # 0 /\ LitAt(line, sp, lit) THEN sp + Len(lit) ELSE 0)

\* ' +' lit ' +' \w+ at p: [end, word], end = 0 when none.
KeywordWordAt(line, p, lit) ==
  Bind(Spaces1(line, KeywordAt(line, p, lit)), LAMBDA sp :
    IF sp # 0 /\ sp <= Len(line) /\ IsWord(line[sp])
      THEN [end |-> sp + 1, word |-> line[sp]]
      ELSE [end |-> 0, word |-> ""])

\* (?:NULL|'...'|\w+)(?:ON UPDATE \w+)? at p: the position after it, 0 when
\* none.
DefaultValueEnd(line, p) ==
  Bind(IF LitAt(line, p, <<"NULL">>) THEN p + 1
       ELSE IF At(line, p) = SQ THEN StrLitAt(line, p)
       ELSE IF p <= Len(line) /\ IsWord(line[p]) THEN p + 1
       ELSE 0,
       LAMBDA v :
         IF v # 0 /\ LitAt(line, v, <<"ON", SP, "UPDATE", SP>>)
            /\ v + 4 <= Len(line) /\ IsWord(line[v + 4])
           THEN v + 5
           ELSE v)

\* The optional group g of _re_column at p: the position after it and the
\* captures it adds to c, end = 0 when the group does not match at p.
\*   1 arg  2 UNSIGNED  3 ZEROFILL  4 CHARACTER SET  5 COLLATE  6 NOT NULL
\*   7 DEFAULT  8 AUTO_INCREMENT  9 COMMENT  10 COLUMN_FORMAT  11 STORAGE
\* The groups written (P<collate>\w+) and (P<comment>...) in the source are
\* unnamed: they match the literal text P<collate>, P<comment> and add no key
\* to the match's groupdict.
ColumnGroup(line, g, p, c) ==
  CASE g = 1 ->
         Bind(IF At(line, p) = LP THEN ArgEnd(line, p + 1, TRUE) ELSE 0, LAMBDA e :
           IF e = 0 THEN [end |-> 0, c |-> c]
           ELSE [end |-> e + 1, c |-> [c EXCEPT !.arg = Slice(line, p + 1, e - 1)]])
    [] g = 2 -> [end |-> KeywordAt(line, p, <<"UNSIGNED">>),
                 c |-> [c EXCEPT !.unsigned = TRUE]]
    [] g = 3 -> [end |-> KeywordAt(line, p, <<"ZEROFILL">>),
                 c |-> [c EXCEPT !.zerofill = TRUE]]
    [] g = 4 ->
         Bind(KeywordWordAt(line, p, <<"CHARACTER", SP, "SET">>), LAMBDA m :
           [end |-> m.end, c |-> [c EXCEPT !.charset = m.word]])
    [] g = 5 ->
         Bind(Spaces1(line, KeywordAt(line, p, <<"COLLATE">>)), LAMBDA sp :
           IF sp # 0 /\ LitAt(line, sp, <<"P", "<", "collate", ">">>)
              /\ sp + 4 <= Len(line) /\ IsWord(line[sp + 4])
             THEN [end |-> sp + 5, c |-> c]
             ELSE [end |-> 0, c |-> c])
    [] g = 6 -> [end |-> KeywordAt(line, p, <<"NOT", SP, "NULL">>),
                 c |-> [c EXCEPT !.notnull = TRUE]]
    [] g = 7 ->
         Bind(Spaces1(line, KeywordAt(line, p, <<"DEFAULT">>)), LAMBDA sp :
           Bind(IF sp # 0 THEN DefaultValueEnd(line, sp) ELSE 0, LAMBDA e :
             IF e = 0 THEN [end |-> 0, c |-> c]
             ELSE [end |-> e, c |-> [c EXCEPT !.default = Slice(line, sp, e - 1)]]))
    [] g = 8 -> [end |-> KeywordAt(line, p, <<"AUTO_INCREMENT">>),
                 c |-> [c EXCEPT !.autoincr = TRUE]]
    [] g = 9 ->
         Bind(Spaces1(line, KeywordAt(line, p, <<"COMMENT">>)), LAMBDA sp :
           IF sp # 0 /\ LitAt(line, sp, <<"P", "<", "comment", ">">>)
              /\ sp + 4 <= Len(line) /\ line[sp + 4] # SQ
             THEN [end |-> sp + 5, c |-> c]
             ELSE [end |-> 0, c |-> c])
    [] g = 10 -> [end |-> KeywordWordAt(line, p, <<"COLUMN_FORMAT">>).end, c |-> c]
    [] g = 11 -> [end |-> KeywordWordAt(line, p, <<"STORAGE">>).end, c |-> c]

\* (?: +(?P<extra>.*))?,?$ at p.
ColumnTail(line, p) ==
  \/ p > Len(line)
  \/ p = Len(line) /\ line[p] = CM
  \/ At(line, p) = SP

\* The optional groups g..11 and the tail of _re_column from p on, tried as
\* the regular expression engine tries them: each group first with its match,
\* and without it when the rest then fails.
RECURSIVE ColumnRest(_, _, _, _)
ColumnRest(line, g, p, c) ==
  IF g > 11 THEN (IF ColumnTail(line, p) THEN c ELSE NoColumn)
  ELSE Bind(ColumnGroup(line, g, p, c), LAMBDA m :
         Bind(IF m.end # 0 THEN ColumnRest(line, g + 1, m.end, m.c) ELSE NoColumn,
              LAMBDA with :
                IF with.ok THEN with ELSE ColumnRest(line, g + 1, p, c)))

\* _re_column.match(line).
ReColumn(line, q) ==
  Bind(ColumnHead(line, q), LAMBDA h :
    IF ~h.ok THEN NoColumn
    ELSE ColumnRest(line, 1, h.end,
                    [NoColumn EXCEPT !.ok = TRUE, !.full = TRUE,
                                     !.name = h.name, !.coltype = h.coltype]))

\* .*?(?P<notnull>NOT NULL)? matched lazily from p: NOT NULL is captured only
\* when it stands at p.
\* _re_column_loose.match(line).
ReColumnLoose(line, q) ==
  Bind(ColumnHead(line, q), LAMBDA h :
    Bind(IF h.ok /\ At(line, h.end) = LP THEN ArgEnd(line, h.end + 1, FALSE) ELSE 0,
         LAMBDA e :
           IF ~h.ok THEN NoColumn
           ELSE [NoColumn EXCEPT
                   !.ok = TRUE, !.name = h.name, !.coltype = h.coltype,
                   !.arg = IF e = 0 THEN <<>> ELSE Slice(line, h.end + 1, e - 1),
                   !.notnull = LitAt(line, IF e = 0 THEN h.end ELSE e + 1,
                                     <<"NOT", SP, "NULL">>)]))

\* MySQLSchemaReflector.parse_column.
parse_column(line, q) ==
  Bind(ReColumn(line, q), LAMBDA m :
    IF m.ok THEN m ELSE ReColumnLoose(line, q))

(***************************************************************************)
(* _re_keyexprs, _re_key, _re_constraint, _re_partition                    *)
(***************************************************************************)
\* One match of _re_keyexprs at p: a quoted name, an optional (\d+) and the
\* lookahead (?=\,|$).  [ok, name, length, end].
KeyExprAt(s, p, q) ==
  Bind(QuotedAt(s, p, q), LAMBDA id :
    Bind(id.ok /\ At(s, id.end) = LP /\ IsDigits(At(s, id.end + 1))
         /\ At(s, id.end + 2) = RP,
         LAMBDA hasLen :
           Bind(IF hasLen THEN id.end + 3 ELSE id.end, LAMBDA e :
             IF id.ok /\ (e > Len(s) \/ s[e] = CM)
               THEN [ok |-> TRUE, name |-> id.name,
                     length |-> IF hasLen THEN s[id.end + 1] ELSE "", end |-> e]
               ELSE [ok |-> FALSE, name |-> <<>>, length |-> "", end |-> 0])))

\* MySQLSchemaReflector._parse_keyexprs: _re_keyexprs.findall(identifiers),
\* the (name, length) pairs found scanning from p.
RECURSIVE parse_keyexprs(_, _, _)
parse_keyexprs(s, p, q) ==
  IF p > Len(s) THEN <<>>
  ELSE Bind(KeyExprAt(s, p, q), LAMBDA m :
         IF m.ok THEN <<<<m.name, m.length>>>> \o parse_keyexprs(s, m.end, q)
         ELSE parse_keyexprs(s, p + 1, q))

\* The names of a list of (name, length) pairs: [s[0] for s in columns].
Names(pairs) == [k \in 1..Len(pairs) |-> pairs[k][1]]

\* ' +' lit ' +' \S+ at p: the position after it, 0 when none.
KeywordTokenAt(line, p, lit) ==
  Bind(Spaces1(line, KeywordAt(line, p, lit)), LAMBDA sp :
    Bind(SkipNonSpace(line, sp), LAMBDA e :
      IF sp # 0 /\ e > sp THEN e ELSE 0))

\* The trailers of _re_key from p on: group 1 USING, 2 KEY_BLOCK_SIZE,
\* 3 WITH PARSER, then ,?$.
RECURSIVE KeyTrailer(_, _, _)
KeyTrailer(line, g, p) ==
  IF g > 3 THEN p > Len(line) \/ (p = Len(line) /\ line[p] = CM)
  ELSE Bind(KeywordTokenAt(line, p, CASE g = 1 -> <<"USING">>
                                      [] g = 2 -> <<"KEY_BLOCK_SIZE">>
                                      [] g = 3 -> <<"WITH", SP, "PARSER">>),
            LAMBDA e :
              \/ e # 0 /\ KeyTrailer(line, g + 1, e)
              \/ KeyTrailer(line, g + 1, p))

\* (?P<columns>.+?)\) and the trailers, columns starting at p: the position
\* of the first closing parenthesis at or after j after which the trailers
\* match, 0 when none.
RECURSIVE KeyColumnsEnd(_, _, _)
KeyColumnsEnd(line, p, j) ==
  IF j > Len(line) THEN 0
  ELSE IF j > p /\ line[j] = RP /\ KeyTrailer(line, 1, j + 1) THEN j
  ELSE KeyColumnsEnd(line, p, j + 1)

NoKey == [ok |-> FALSE, type |-> <<>>, name |-> <<>>, columns |-> <<>>]

\* _re_key from the position p after KEY on, with the type captured before.
KeyAfter(line, p, type, q) ==
  Bind(QuotedAt(line, Spaces1(line, p), q), LAMBDA id :
    Bind(IF id.ok THEN id.end ELSE p, LAMBDA p2 :
      Bind(KeywordTokenAt(line, p2, <<"USING">>), LAMBDA u :
        Bind(Spaces1(line, IF u # 0 THEN u ELSE p2), LAMBDA sp3 :
          Bind(IF sp3 # 0 /\ At(line, sp3) = LP
                 THEN KeyColumnsEnd(line, sp3 + 1, sp3 + 1) ELSE 0,
               LAMBDA e :
                 IF e = 0 THEN NoKey
                 ELSE [ok |-> TRUE, type |-> type,
                       name |-> IF id.ok THEN id.name ELSE <<>>,
                       columns |-> Slice(line, sp3 + 1, e - 1)])))))

\* _re_key.match(line): the optional (?P<type>\S+) first, then without it.
ReKey(line, q) ==
  Bind(SkipNonSpace(line, 3), LAMBDA e :
    Bind(IF e > 3 /\ At(line, e) = SP /\ LitAt(line, e + 1, <<"KEY">>)
           THEN KeyAfter(line, e + 2, Slice(line, 3, e - 1), q)
           ELSE NoKey,
         LAMBDA typed :
           IF ~(At(line, 1) = SP /\ At(line, 2) = SP) THEN NoKey
           ELSE IF typed.ok THEN typed
           ELSE IF LitAt(line, 3, <<"KEY">>) THEN KeyAfter(line, 4, <<>>, q)
           ELSE NoKey))

\* The first position at or after p holding lexeme t, 0 when none.
RECURSIVE Find(_, _, _)
Find(s, p, t) ==
  IF p > Len(s) THEN 0 ELSE IF s[p] = t THEN p ELSE Find(s, p + 1, t)

\* The alternatives of kw['on'], as written in the source, in order.
OnActions == <<<<"RESTRICT">>, <<"CASCASDE">>, <<"SET", SP, "NULL">>, <<"NOACTION">>>>

\* ' +' lit ' ' (?P<on>...) at p: [end, action], end = 0 when none.
OnClauseAt(line, p, lit) ==
  Bind(KeywordAt(line, p, lit), LAMBDA k :
    Bind(IF k # 0 /\ At(line, k) = SP
           THEN {a \in 1..Len(OnActions) : LitAt(line, k + 1, OnActions[a])}
           ELSE {},
         LAMBDA hit :
           IF hit = {} THEN [end |-> 0, action |-> <<>>]
           ELSE Bind(CHOOSE x \in hit : \A y \in hit : x <= y, LAMBDA a :
                  [end |-> k + 1 + Len(OnActions[a]),
                   action |-> Slice(line, k + 1, k + Len(OnActions[a]))])))

NoConstraint ==
  [ok |-> FALSE, name |-> <<>>, local |-> <<>>, table |-> <<>>,
   foreign |-> <<>>, ondelete |-> <<>>, onupdate |-> <<>>]

\* ' +' \( ... \) at p: [lp, rp], the positions of the parentheses, 0 when
\* none; what is between them is not empty.
ParensAt(line, p) ==
  Bind(Spaces1(line, p), LAMBDA lp :
    Bind(IF lp # 0 /\ At(line, lp) = LP THEN Find(line, lp + 1, RP) ELSE 0,
         LAMBDA rp :
           IF rp > lp + 1 THEN [lp |-> lp, rp |-> rp] ELSE [lp |-> 0, rp |-> 0]))

\* The end of _re_constraint from p on: MATCH \w+, ON DELETE, ON UPDATE.
ConstraintTail(line, p) ==
  Bind(KeywordAt(line, p, <<"MATCH", SP>>), LAMBDA mk :
    Bind(IF mk # 0 /\ mk <= Len(line) /\ IsWord(line[mk]) THEN mk + 1 ELSE p,
         LAMBDA m :
           Bind(OnClauseAt(line, m, <<"ON", SP, "DELETE">>), LAMBDA del :
             [ondelete |-> del.action,
              onupdate |-> OnClauseAt(line, IF del.end # 0 THEN del.end ELSE m,
                                      <<"ON", SP, "UPDATE">>).action])))

\* _re_constraint.match(line); local, table and foreign as matched.
ReConstraint(line, q) ==
  Bind(QuotedAt(line, IF LitAt(line, 3, <<"CONSTRAINT">>) THEN Spaces1(line, 4) ELSE 0, q),
       LAMBDA id :
  Bind(ParensAt(line, KeywordAt(line, id.end, <<"FOREIGN", SP, "KEY">>)),
       LAMBDA local :
  Bind(IF local.rp # 0 /\ LitAt(line, local.rp + 1, <<SP, "REFERENCES">>)
         THEN Spaces1(line, local.rp + 3) ELSE 0,
       LAMBDA ref :
  Bind(IF ref # 0 /\ At(line, ref) = q THEN Find(line, ref + 1, q) ELSE 0,
       LAMBDA tq :
  Bind(ParensAt(line, IF tq > ref + 1 THEN tq + 1 ELSE 0),
       LAMBDA foreign :
  Bind(ConstraintTail(line, foreign.rp + 1),
       LAMBDA tail :
         IF ~(At(line, 1) = SP /\ At(line, 2) = SP) \/ foreign.rp = 0
           THEN NoConstraint
           ELSE [ok |-> TRUE, name |-> id.name,
                 local |-> Slice(line, local.lp + 1, local.rp - 1),
                 table |-> Slice(line, ref, tq),
                 foreign |-> Slice(line, foreign.lp + 1, foreign.rp - 1),
                 ondelete |-> tail.ondelete, onupdate |-> tail.onupdate]))))))

\* _re_partition.match(line).
RePartition(line) ==
  /\ At(line, 1) = SP /\ At(line, 2) = SP
  /\ Upper(At(line, 3)) \in {"PARTITION", "SUBPARTITION"}

\* IdentifierPreparer.unformat_identifiers for the one quoted identifier that
\* _re_constraint lets through: the list holding its name.
unformat_identifiers(quoted) == <<Slice(quoted, 2, Len(quoted) - 1)>>

\* parse_constraints with the PARTITION pattern tried first.
parse_constraints_partition_first(line, q) ==
  IF RePartition(line) THEN [type |-> "partition", spec |-> line]
  ELSE Bind(ReKey(line, q), LAMBDA k :
    IF k.ok
      THEN [type |-> "key",
            spec |-> [type |-> k.type, name |-> k.name,
                      columns |-> parse_keyexprs(k.columns, 1, q)]]
      ELSE [type |-> "None", spec |-> line])

\* MySQLSchemaReflector.parse_constraints: <<type_, spec>>.
parse_constraints(line, q) ==
  Bind(ReKey(line, q), LAMBDA k :
    IF k.ok
      THEN [type |-> "key",
            spec |-> [type |-> k.type, name |-> k.name,
                      columns |-> parse_keyexprs(k.columns, 1, q)]]
    ELSE Bind(ReConstraint(line, q), LAMBDA c :
      IF c.ok
        THEN [type |-> "constraint",
              spec |-> [name |-> c.name,
                        table |-> unformat_identifiers(c.table),
                        local |-> Names(parse_keyexprs(c.local, 1, q)),
                        foreign |-> Names(parse_keyexprs(c.foreign, 1, q)),
                        ondelete |-> c.ondelete, onupdate |-> c.onupdate]]
      ELSE IF RePartition(line) THEN [type |-> "partition", spec |-> line]
      ELSE [type |-> "None", spec |-> line]))

(***************************************************************************)
(* parse_name and parse_table_options                                      *)
(***************************************************************************)
\* MySQLSchemaReflector.parse_name: _pr_name, the name between the quotes or
\* the empty sequence when the line does not match.
parse_name(line, q) ==
  Bind(IF LitAt(line, 1, <<"CREATE", SP, "TABLE">>) THEN 4
       ELSE IF LitAt(line, 1, <<"CREATE", SP>>) /\ IsWord(At(line, 3))
               /\ LitAt(line, Spaces1(line, 4), <<"TABLE">>)
         THEN Spaces1(line, 4) + 1
       ELSE 0,
       LAMBDA t :
         Bind(QuotedAt(line, Spaces1(line, t), q), LAMBDA id :
           Bind(Spaces1(line, id.end), LAMBDA lp :
             IF lp # 0 /\ lp = Len(line) /\ line[lp] = LP THEN id.name ELSE <<>>)))

\* The directives given to _add_option_word, in order, each with the key
\* that directive.lower() makes of it.
OptionWords ==
  << <<<<"ENGINE">>, "engine">>, <<<<"TYPE">>, "type">>,
     <<<<"AUTO_INCREMENT">>, "auto_increment">>,
     <<<<"AVG_ROW_LENGTH">>, "avg_row_length">>,
     <<<<"CHARACTER", SP, "SET">>, "character set">>,
     <<<<"DEFAULT", SP, "CHARSET">>, "default charset">>,
     <<<<"CHECKSUM">>, "checksum">>, <<<<"COLLATE">>, "collate">>,
     <<<<"DELAY_KEY_WRITE">>, "delay_key_write">>,
     <<<<"INSERT_METHOD">>, "insert_method">>, <<<<"MAX_ROWS">>, "max_rows">>,
     <<<<"MIN_ROWS">>, "min_rows">>, <<<<"PACK_KEYS">>, "pack_keys">>,
     <<<<"ROW_FORMAT">>, "row_format">>, <<<<"KEY_BLOCK_SIZE">>, "key_block_size">> >>

\* directive\s*(?:=\s*)?(?P<val>\w+) at p: [end, eq, pad, val].  eq says
\* whether an '=' follows the directive, pad counts the spaces the directive
\* group captured after the keyword when there is none.
OptionWordAt(line, p, lit) ==
  Bind(IF LitAt(line, p, lit) THEN SkipSpaces(line, p + Len(lit)) ELSE 0, LAMBDA a :
    Bind(a # 0 /\ At(line, a) = "=", LAMBDA eq :
      Bind(IF eq THEN SkipSpaces(line, a + 1) ELSE a, LAMBDA v :
        IF a # 0 /\ v <= Len(line) /\ IsWord(line[v])
          THEN [end |-> v + 1, eq |-> eq, pad |-> a - (p + Len(lit)), val |-> line[v]]
          ELSE [end |-> 0, eq |-> FALSE, pad |-> 0, val |-> ""])))

\* regex.search(line): the first match of a word option scanning from p.
RECURSIVE OptionWordSearch(_, _, _)
OptionWordSearch(line, p, lit) ==
  IF p > Len(line) THEN [end |-> 0, eq |-> FALSE, pad |-> 0, val |-> ""]
  ELSE Bind(OptionWordAt(line, p, lit), LAMBDA m :
         IF m.end # 0 THEN m ELSE OptionWordSearch(line, p + 1, lit))

\* MySQLSchemaReflector.parse_table_options: the set of <<key, value>> pairs.
\* A key is the lower-cased directive; r_eq_trim strips the '=' and the
\* spaces around it, and without an '=' the spaces after the keyword stay in
\* the key (pad of them).  The patterns of _add_option_string end in
\* \x27(?!\x27)\x27, which no text matches, and the UNION, TABLESPACE and
\* RAID_TYPE patterns match none of the option lines of the model.
parse_table_options(line) ==
  IF line = <<>> \/ line = <<RP>> THEN {}
  ELSE Bind([k \in 1..Len(OptionWords) |->
               OptionWordSearch(line, 1, OptionWords[k][1])],
            LAMBDA found :
              {<<[name |-> OptionWords[k][2],
                  pad |-> IF found[k].eq THEN 0 ELSE found[k].pad],
                 found[k].val>> :
                 k \in {j \in 1..Len(OptionWords) : found[j].end # 0}})

\* A _set_options that drops nothing.
Nope_nothing == {}

\* The options _set_options drops: 'auto_increment', 'data_directory',
\* 'index_directory', as exact keys.
Nope == {[name |-> n, pad |-> 0] :
           n \in {"auto_increment", "data_directory", "index_directory"}}

(***************************************************************************)
(* The type catalog as _add_column uses it                                 *)
(***************************************************************************)
\* The keys of ischema_names.
ischema_names ==
  {"bigint", "binary", "bit", "blob", "boolean", "char", "date", "datetime",
   "decimal", "double", "enum", "fixed", "float", "int", "integer",
   "longblob", "longtext", "mediumblob", "mediumint", "mediumtext", "nchar",
   "nvarchar", "numeric", "set", "smallint", "text", "time", "timestamp",
   "tinyblob", "tinyint", "tinytext", "varbinary", "varchar", "year"}

\* The types that subclass sqltypes.Integer.
IntegerTypes == {"bigint", "int", "integer", "mediumint", "smallint", "tinyint"}

\* The least and the greatest number of positional arguments the __init__ of
\* each type of this file takes; the types whose __init__ is inherited from
\* the generic type system (boolean, date, datetime, time, timestamp and the
\* untyped NullType) are taken to accept what they are given.
CtorMin(t) == IF t = "char" THEN 1 ELSE 0

CtorMax(t) ==
  CASE t \in IntegerTypes \cup {"bit", "year", "text", "varchar", "char",
                                "nvarchar", "nchar", "varbinary", "binary",
                                "blob", "tinyblob", "mediumblob", "longblob"} -> 1
    [] t \in {"tinytext", "mediumtext", "longtext"} -> 0
    [] t \in {"double", "float", "decimal", "numeric", "fixed"} -> 3
    [] OTHER -> 1000

\* An argument of a constructor: None, or the value given.
None == [given |-> FALSE, n |-> 0]
Given(n) == [given |-> TRUE, n |-> n]

\* The k-th of the positional arguments args, None when there are fewer.
Positional(args, k) == IF k <= Len(args) THEN Given(args[k]) ELSE None

\* The outcome of a numeric constructor: the exception raised ("" for
\* none) and the attributes of the instance.
Built(exc, tag, precision, scale) ==
  [exc |-> exc, tag |-> tag, precision |-> precision, scale |-> scale]

MSDouble_unchecked(precision, scale) == Built("", "double", precision, scale)

\* MSDouble.__init__(precision, scale).
MSDouble(precision, scale) ==
  IF (~precision.given /\ scale.given) \/ (precision.given /\ ~scale.given)
    THEN Built("ArgumentError", "double", None, None)
    ELSE Built("", "double", precision, scale)

\* MSReal.__init__ hands its arguments to MSDouble.__init__.
MSReal(precision, scale) == [MSDouble(precision, scale) EXCEPT !.tag = "real"]

\* MSFloat.__init__(precision, scale).
MSFloat(precision, scale) == Built("", "float", precision, scale)

\* str.replace(q + q, q): the doubled q of s made single, from the left.
RECURSIVE Undouble(_, _)
Undouble(s, q) ==
  IF s = <<>> THEN <<>>
  ELSE IF Len(s) >= 2 /\ s[1] = q /\ s[2] = q
    THEN <<q>> \o Undouble(SubSeq(s, 3, Len(s)), q)
  ELSE <<s[1]>> \o Undouble(Tail(s), q)

\* The loop of MSEnum.__init__ over enums from the k-th on, q the first
\* character of the first literal ("" for None): the quoting it sets.
RECURSIVE AutoQuoting(_, _, _)
AutoQuoting(enums, k, q) ==
  IF k > Len(enums) THEN "quoted"
  ELSE IF Len(enums[k]) = 0 THEN "unquoted"
  ELSE Bind(IF q = "" THEN enums[k][1] ELSE q, LAMBDA c :
         IF enums[k][1] # c \/ enums[k][Len(enums[k])] # c THEN "unquoted"
         ELSE AutoQuoting(enums, k + 1, c))

\* a[1:-1].replace(a[0] * 2, a[0]) for a literal that begins with a quote.
StripEnum(a) ==
  IF a # <<>> /\ a[1] \in {DQ, SQ}
    THEN Undouble(Slice(a, 2, Len(a) - 1), a[1])
    ELSE a

\* MSEnum.__init__(*enums, quoting=quoting): the quoting and the enums of
\* the instance, and whether the deprecation of quoted literals was warned
\* of.
MSEnum(enums, quoting) ==
  Bind(IF quoting = "auto" THEN AutoQuoting(enums, 1, "") ELSE quoting,
       LAMBDA mode :
         [exc |-> "", tag |-> "enum", quoting |-> mode,
          enums |-> IF mode = "quoted"
                      THEN [k \in DOMAIN enums |-> StripEnum(enums[k])]
                      ELSE enums,
          warned |-> mode = "quoted"])

\* __visit_name__ of each class of types.
visit_name(cls) ==
  CASE cls = "MSInteger" -> "INTEGER" [] cls = "MSBigInteger" -> "BIGINT"
    [] cls = "MSMediumInteger" -> "MEDIUMINT" [] cls = "MSTinyInteger" -> "TINYINT"
    [] cls = "MSSmallInteger" -> "SMALLINT" [] cls = "MSNumeric" -> "NUMERIC"
    [] cls = "MSDecimal" -> "DECIMAL" [] cls = "MSDouble" -> "DOUBLE"
    [] cls = "MSReal" -> "REAL" [] cls = "MSFloat" -> "FLOAT"
    [] cls = "MSString" -> "VARCHAR" [] cls = "MSChar" -> "CHAR"
    [] cls = "MSBoolean" -> "BOOLEAN"

\* ischema_names[type_]: the class of a key of the catalog, NullType for a
\* word that is no key.
ischema_class(type_) ==
  CASE type_ \in {"int", "integer"} -> "MSInteger"
    [] type_ = "bigint" -> "MSBigInteger" [] type_ = "mediumint" -> "MSMediumInteger"
    [] type_ = "tinyint" -> "MSTinyInteger" [] type_ = "smallint" -> "MSSmallInteger"
    [] type_ = "numeric" -> "MSNumeric" [] type_ \in {"decimal", "fixed"} -> "MSDecimal"
    [] type_ = "double" -> "MSDouble" [] type_ = "float" -> "MSFloat"
    [] type_ = "varchar" -> "MSString" [] type_ = "char" -> "MSChar"
    [] type_ = "boolean" -> "MSBoolean"
    [] type_ \in ischema_names -> type_
    [] OTHER -> "NullType"

\* The attributes of an instance the compiler and the claims look at: its
\* class, its first attribute (display_width, precision or length), its
\* scale, and the flags of _NumericType.
Descriptor(cls, first, second, unsigned, zerofill) ==
  [cls |-> cls, first |-> first, second |-> second, unsigned |-> unsigned,
   zerofill |-> zerofill]

\* cls(*type_args, unsigned=unsigned, zerofill=zerofill): an argument left
\* out has the default of the class's __init__, precision=10 and scale=2
\* for MSNumeric and MSDecimal and None for the others.
Instance(cls, type_args, unsigned, zerofill) ==
  Descriptor(cls,
    IF Len(type_args) >= 1 THEN Given(type_args[1])
    ELSE IF cls \in {"MSNumeric", "MSDecimal"} THEN Given(10) ELSE None,
    IF Len(type_args) >= 2 THEN Given(type_args[2])
    ELSE IF cls \in {"MSNumeric", "MSDecimal"} THEN Given(2) ELSE None,
    unsigned, zerofill)

\* MySQLTypeCompiler._extend_numeric.
extend_numeric(type_, spec) ==
  spec \o (IF type_.unsigned THEN <<SP, "UNSIGNED">> ELSE <<>>)
       \o (IF type_.zerofill THEN <<SP, "ZEROFILL">> ELSE <<>>)

\* "WORD(%s)" and "WORD(%s, %s)".
OneArg(word, n) == <<word, LP, Decimal(n), RP>>
TwoArgs(word, p, s) == <<word, LP, Decimal(p), CM, SP, Decimal(s), RP>>

\* visit_INTEGER, visit_BIGINT, visit_MEDIUMINT, visit_TINYINT and
\* visit_SMALLINT.
visit_integer(type_) ==
  extend_numeric(type_, IF type_.first.given
                          THEN OneArg(visit_name(type_.cls), type_.first.n)
                          ELSE <<visit_name(type_.cls)>>)

visit_NUMERIC(type_) ==
  extend_numeric(type_,
    IF ~type_.first.given THEN <<"NUMERIC">>
    ELSE TwoArgs("NUMERIC", type_.first.n, type_.second.n))

visit_DECIMAL(type_) ==
  extend_numeric(type_,
    IF ~type_.first.given THEN <<"DECIMAL">>
    ELSE IF ~type_.second.given THEN OneArg("DECIMAL", type_.first.n)
    ELSE TwoArgs("DECIMAL", type_.first.n, type_.second.n))

\* visit_DOUBLE and visit_REAL.
visit_DOUBLE(type_) ==
  extend_numeric(type_,
    IF type_.first.given /\ type_.second.given
      THEN TwoArgs(visit_name(type_.cls), type_.first.n, type_.second.n)
      ELSE <<visit_name(type_.cls)>>)

visit_FLOAT(type_) ==
  extend_numeric(type_,
    IF type_.second.given /\ type_.first.given
      THEN TwoArgs("FLOAT", type_.first.n, type_.second.n)
    ELSE IF type_.first.given THEN OneArg("FLOAT", type_.first.n)
    ELSE <<"FLOAT">>)

\* visit_VARCHAR and visit_CHAR for a type without charset, collation or
\* national: _extend_string adds nothing.  "if type_.length" is a truth
\* test.
visit_VARCHAR(type_) ==
  IF type_.first.given /\ type_.first.n # 0
    THEN OneArg("VARCHAR", type_.first.n) ELSE <<"VARCHAR">>

visit_CHAR(type_) == OneArg("CHAR", type_.first.n)

visit_BOOLEAN(type_) == <<"BOOL">>

\* MySQLTypeCompiler.process(type_): the DDL text of the type.
process(type_) ==
  CASE type_.cls \in {"MSInteger", "MSBigInteger", "MSMediumInteger",
                      "MSTinyInteger", "MSSmallInteger"} -> visit_integer(type_)
    [] type_.cls = "MSNumeric" -> visit_NUMERIC(type_)
    [] type_.cls = "MSDecimal" -> visit_DECIMAL(type_)
    [] type_.cls \in {"MSDouble", "MSReal"} -> visit_DOUBLE(type_)
    [] type_.cls = "MSFloat" -> visit_FLOAT(type_)
    [] type_.cls = "MSString" -> visit_VARCHAR(type_)
    [] type_.cls = "MSChar" -> visit_CHAR(type_)
    [] type_.cls = "MSBoolean" -> visit_BOOLEAN(type_)
    [] type_.cls = "MSDateTime" -> <<"DATETIME">>
    [] type_.cls = "MSDate" -> <<"DATE">>
    [] type_.cls = "MSTime" -> <<"TIME">>

\* str.lower() of the words the compiler writes.
LowerWord(w) ==
  CASE w = "INTEGER" -> "integer" [] w = "BIGINT" -> "bigint"
    [] w = "MEDIUMINT" -> "mediumint" [] w = "TINYINT" -> "tinyint"
    [] w = "SMALLINT" -> "smallint" [] w = "NUMERIC" -> "numeric"
    [] w = "DECIMAL" -> "decimal" [] w = "DOUBLE" -> "double"
    [] w = "REAL" -> "real" [] w = "FLOAT" -> "float"
    [] w = "VARCHAR" -> "varchar" [] w = "CHAR" -> "char"
    [] w = "BOOL" -> "bool"
    [] OTHER -> w

\* MSDouble.__init__ as _add_column calls it: precision without scale.
DoubleArgsBad(t, type_args) ==
  /\ t \in {"double"}
  /\ MSDouble(Positional(type_args, 1), Positional(type_args, 2)).exc # ""

\* col_type(*type_args, **type_kw): "ok", or the exception raised.
Construct(t, type_args) ==
  IF t \notin ischema_names THEN "ok"
  ELSE IF Len(type_args) < CtorMin(t) \/ Len(type_args) > CtorMax(t) THEN "TypeError"
  ELSE IF DoubleArgsBad(t, type_args) THEN "ArgumentError"
  ELSE "ok"

(***************************************************************************)
(* The schema objects reflection fills in (sqlalchemy.schema)               *)
(***************************************************************************)
Range(f) == {f[k] : k \in DOMAIN f}

\* schema._get_table_key(name, schema); the empty schema stands for None.
get_table_key(name, schema) == [schema |-> schema, name |-> name]

\* A Table as Table(name, metadata, schema=schema) leaves it.
NewTable(name, schema) ==
  [name |-> name, schema |-> schema, columns |-> <<>>, hasPk |-> FALSE,
   pk |-> <<>>, indexes |-> <<>>, fks |-> <<>>, kwargs |-> {}]

ColumnNames(tbl) == {tbl.columns[k].name : k \in DOMAIN tbl.columns}

\* table.append_column(column).
append_column(tbl, col) == [tbl EXCEPT !.columns = Append(@, col)]

\* The allow-list "only" of reflect: given is FALSE for None.  "if only:" is
\* Python's truth test: None and the empty collection are both false.
NoOnly == [given |-> FALSE, names |-> {}]

OnlyTruthy(only) == only.given /\ only.names # {}

(***************************************************************************)
(* MySQLSchemaReflector._add_column, _set_keys, _set_constraints,          *)
(* _set_options, _set_name                                                 *)
(***************************************************************************)
Diag(level, what, arg) == [level |-> level, what |-> what, arg |-> arg]

\* The DefaultClause of a column: "none" when the line has no DEFAULT or
\* DEFAULT NULL; "text" for sql.text(default); "quoted" for a timestamp's
\* default left in its quotes; "chopped" for default[1:-1], the text without
\* its first and last character.
ColumnDefault(type_, default) ==
  IF default = <<>> \/ default = <<"NULL">> THEN [kind |-> "none", of |-> <<>>]
  ELSE IF type_ = "timestamp"
    THEN IF Head(default) = SQ /\ default[Len(default)] = SQ
           THEN [kind |-> "quoted", of |-> default]
           ELSE [kind |-> "text", of |-> default]
    ELSE [kind |-> "chopped", of |-> default]

ColumnType_as_given(spec) == [type_ |-> spec.coltype, args |-> spec.arg]

\* The type name and the arguments _add_column goes on with: tinyint(1) is
\* read as boolean without arguments.
ColumnType(spec) ==
  IF spec.coltype = "tinyint" /\ spec.arg = <<"1">>
    THEN [type_ |-> "boolean", args |-> <<>>]
    ELSE [type_ |-> spec.coltype, args |-> spec.arg]

\* type_args: the quoted strings, or the integers, of the argument text.
TypeArgs(args) ==
  IF args = <<>> THEN <<>>
  ELSE IF Head(args) = SQ /\ args[Len(args)] = SQ THEN CsvStr(args, 1)
  ELSE Bind(CsvInt(args), LAMBDA found :
         [k \in DOMAIN found |-> IntOf(found[k][1])])

\* The Column built from a column specification.
NewColumn(spec, type_, type_args) ==
  [name |-> spec.name,
   type |-> [tag |-> IF type_ \in ischema_names THEN type_ ELSE "NullType",
             args |-> type_args,
             unsigned |-> spec.unsigned, zerofill |-> spec.zerofill,
             charset |-> spec.charset, collate |-> spec.collate,
             quoting |-> IF type_ = "enum" THEN "quoted" ELSE ""],
   nullable |-> ~spec.notnull,
   autoincrement |-> IF spec.autoincr THEN "True"
                     ELSE IF type_ \in IntegerTypes THEN "False"
                     ELSE "unset",
   default |-> ColumnDefault(type_, spec.default)]

\* The diagnostics of _add_column for a column it goes on to build.
ColumnWarnings(spec, type_, line) ==
  (IF spec.full THEN <<>> ELSE <<Diag("warn", "Incomplete reflection", line)>>)
  \o (IF type_ \in ischema_names THEN <<>>
      ELSE <<Diag("warn", "Did not recognize type", line)>>)

\* _add_column leaving out a column whose type it does not recognize.
AddParsed_skips_unknown(tbl, line, only, spec, t, type_args) ==
  IF ~spec.ok
    THEN [table |-> tbl, diag |-> <<Diag("warn", "Unknown column definition", line)>>,
          exc |-> ""]
  ELSE IF OnlyTruthy(only) /\ spec.name \notin only.names
    THEN [table |-> tbl,
          diag |-> (IF spec.full THEN <<>>
                    ELSE <<Diag("warn", "Incomplete reflection", line)>>)
                   \o <<Diag("info", "Omitting reflected column", line)>>,
          exc |-> ""]
  ELSE IF Construct(t.type_, type_args) # "ok"
    THEN [table |-> tbl, diag |-> ColumnWarnings(spec, t.type_, line),
          exc |-> Construct(t.type_, type_args)]
  ELSE IF t.type_ \notin ischema_names
    THEN [table |-> tbl, diag |-> ColumnWarnings(spec, t.type_, line),
          exc |-> ""]
  ELSE [table |-> append_column(tbl, NewColumn(spec, t.type_, type_args)),
        diag |-> ColumnWarnings(spec, t.type_, line), exc |-> ""]

\* _add_column from the parsed specification on.
AddParsed(tbl, line, only, spec, t, type_args) ==
  IF ~spec.ok
    THEN [table |-> tbl, diag |-> <<Diag("warn", "Unknown column definition", line)>>,
          exc |-> ""]
  ELSE IF OnlyTruthy(only) /\ spec.name \notin only.names
    THEN [table |-> tbl,
          diag |-> (IF spec.full THEN <<>>
                    ELSE <<Diag("warn", "Incomplete reflection", line)>>)
                   \o <<Diag("info", "Omitting reflected column", line)>>,
          exc |-> ""]
  ELSE IF Construct(t.type_, type_args) # "ok"
    THEN [table |-> tbl, diag |-> ColumnWarnings(spec, t.type_, line),
          exc |-> Construct(t.type_, type_args)]
  ELSE [table |-> append_column(tbl, NewColumn(spec, t.type_, type_args)),
        diag |-> ColumnWarnings(spec, t.type_, line), exc |-> ""]

\* _add_column(table, line, charset, only): the table afterwards, the
\* diagnostics emitted and the exception raised ("" for none).
add_column(tbl, line, only, q) ==
  Bind(parse_column(line, q), LAMBDA spec :
    Bind(ColumnType(spec), LAMBDA t :
      AddParsed(tbl, line, only, spec, t, TypeArgs(t.args))))

\* One iteration of the loop of _set_keys, for the key specification spec.
\* table.c[name] raises KeyError for a name that is no column of the table.
\* An Index joins the table of the first column appended to it.
\* _set_keys for one key specification whose columns are col_names.
SetKeyColumns(tbl, spec, only, col_names) ==
  IF OnlyTruthy(only) /\ ~(Range(col_names) \subseteq only.names)
    THEN [table |-> tbl, diag |-> <<Diag("info", "Omitting KEY", spec.columns)>>,
          exc |-> ""]
  ELSE IF ~(Range(col_names) \subseteq ColumnNames(tbl))
    THEN [table |-> tbl, diag |-> <<>>, exc |-> "KeyError"]
  ELSE IF spec.type = <<"PRIMARY">>
    THEN [table |-> [tbl EXCEPT !.hasPk = TRUE, !.pk = col_names],
          diag |-> <<>>, exc |-> ""]
  ELSE [table |-> IF col_names = <<>> THEN tbl
                  ELSE [tbl EXCEPT !.indexes =
                          Append(@, [name |-> spec.name,
                                     unique |-> spec.type = <<"UNIQUE">>,
                                     columns |-> col_names])],
        diag |-> IF spec.type \in {<<"UNIQUE">>, <<>>, <<"FULLTEXT">>, <<"SPATIAL">>}
                   THEN <<>>
                   ELSE <<Diag("info", "Converting unknown KEY type", spec.type)>>,
        exc |-> ""]

set_key(tbl, spec, only) == SetKeyColumns(tbl, spec, only, Names(spec.columns))

\* ref_schema of _set_constraints for a constraint of a table in schema
\* schema (empty for None), default_schema the server's current database.
RefSchema(spec, schema, default_schema) ==
  Bind(IF Len(spec.table) > 1 THEN spec.table[Len(spec.table) - 1] ELSE schema,
       LAMBDA given :
         IF given # <<>> THEN given
         ELSE IF schema = default_schema THEN schema
         ELSE <<>>)

\* Whether _set_constraints omits the constraint spec.
OmitsConstraint(spec, only) ==
  OnlyTruthy(only) /\ ~(Range(spec.local) \subseteq only.names)

\* The end of one iteration of the loop of _set_constraints, once the
\* referenced table is at hand: ForeignKeyConstraint(...) and
\* table.append_constraint(key), which looks each local column up in table.c.
attach_foreign_key(tbl, spec, ref_schema) ==
  IF Range(spec.local) \subseteq ColumnNames(tbl)
    THEN [table |-> [tbl EXCEPT !.fks =
                       Append(@, [name |-> spec.name, columns |-> spec.local,
                                  ref_schema |-> ref_schema,
                                  ref_table |-> spec.table[Len(spec.table)],
                                  ref_columns |-> spec.foreign,
                                  onupdate |-> spec.onupdate,
                                  ondelete |-> spec.ondelete])],
          exc |-> ""]
    ELSE [table |-> tbl, exc |-> "KeyError"]

\* _set_options(table, line).
set_options(tbl, line) ==
  Bind({o \in parse_table_options(line) : o[1] \notin Nope}, LAMBDA options :
    [tbl EXCEPT !.kwargs = {kv \in @ : \A o \in options : o[1] # kv[1]}
                           \cup options])

\* _set_name(table, line); a Table built by Table(name, ...) has a name.
set_name(tbl, line, q) ==
  IF tbl.name = <<>> THEN [tbl EXCEPT !.name = parse_name(line, q)] ELSE tbl

(***************************************************************************)
(* MySQLDialect: quoting mode, reflector, per-connection detection         *)
(***************************************************************************)
\* The initial_quote of the preparer class the use_ansiquotes setter picks.
PreparerQuote(useansi) == IF useansi = "True" THEN DQ ELSE BQ

\* value < (4, 1) for a server_version_info tuple.
VersionBelow41(v) == v[1] < 4 \/ (v[1] = 4 /\ v[2] < 1)

\* The numbers the digit lexemes of a sql_mode value stand for.
DigitValue(t) ==
  CASE t = "0" -> 0 [] t = "1" -> 1 [] t = "2" -> 2 [] t = "4" -> 4
    [] t = "5" -> 5 [] t = "10" -> 10 [] t = "11" -> 11 [] t = "32" -> 32

\* mode_no == 4.
IsFour(n) == n = 4

\* mode_no | 4 == mode_no.
HasBit4(n) == (n \div 4) % 2 = 1

\* The value _autoset_identifier_style assigns to use_ansiquotes for the row
\* SHOW VARIABLES LIKE 'sql_mode' returns: row.has is FALSE for no row, and
\* row.mode is the text of row[1], a list of mode names or a number.
AutosetValue(row) ==
  LET mode0 == IF row.has THEN row.mode ELSE <<>>
      mode == IF Len(mode0) = 1 /\ IsDigits(mode0[1])
                THEN (IF HasBit4(DigitValue(mode0[1])) THEN <<"ANSI_QUOTES">> ELSE <<>>)
                ELSE mode0
  IN IF "ANSI_QUOTES" \in Range(mode) THEN "True" ELSE "False"

\* SET_RE.match(statement): \s*SET\s+(?:(?:GLOBAL|SESSION)\s+)?\w
SetReMatch(stmt) ==
  LET p == SkipSpaces(stmt, 1)
      a == IF LitAt(stmt, p, <<"SET">>) THEN Spaces1(stmt, p + 1) ELSE 0
      g == IF a # 0 /\ (LitAt(stmt, a, <<"GLOBAL">>) \/ LitAt(stmt, a, <<"SESSION">>))
             THEN Spaces1(stmt, a + 1) ELSE 0
  IN a # 0 /\ ((g # 0 /\ IsWord(At(stmt, g)) /\ g <= Len(stmt))
               \/ (a <= Len(stmt) /\ IsWord(stmt[a])))

\* AUTOCOMMIT_RE.match(statement), for the statements of the model.
AutocommitReMatch(stmt) ==
  LET p == SkipSpaces(stmt, 1)
  IN \/ Upper(At(stmt, p)) \in {"UPDATE", "INSERT", "CREATE", "DELETE", "DROP",
                               "ALTER", "REPLACE"}
     \/ (LitAt(stmt, p, <<"LOAD">>) /\ Spaces1(stmt, p + 1) # 0
         /\ LitAt(stmt, Spaces1(stmt, p + 1), <<"DATA">>))

(***************************************************************************)
(* The server: its catalog and the text SHOW CREATE TABLE returns          *)
(***************************************************************************)
\* The greatest number of body lines of table a.
MaxBody == 3
\* The number of top-level operations of a run on the mutually referencing
\* catalog.
MaxOps == 3
\* The greatest depth of nested table loads.
MaxDepth == 3

Conns == {"c1", "c2"}
Charsets == {"latin1", "utf8"}

\* str.lower() on the names of the model.
Lower(name) == [k \in DOMAIN name |-> IF name[k] = "A" THEN "a" ELSE name[k]]

TableA == <<"a">>
TableB == <<"b">>
\* The names a caller asks for.
AskedNames == {TableA, <<"A">>}

ColumnLine(q, name, rest) == <<SP, SP, q, name, q, SP>> \o rest

\* The lines the body of table a is drawn from, written with the quote q.
Pool(q) ==
  << ColumnLine(q, "a", <<"int", LP, "11", RP, SP, "NOT", SP, "NULL", CM>>),
     ColumnLine(q, "b", <<"int", LP, "11", RP, SP, "DEFAULT", SP, "NULL", CM>>),
     <<SP, SP, q, "d", q>>,
     ColumnLine(q, "e", <<"double", LP, "5", RP, CM>>),
     <<SP, SP, "PRIMARY", SP, "KEY", SP, SP, LP, q, "a", q, CM, q, "b", q, RP, CM>>,
     <<SP, SP, "PARTITION", SP, "KEY", SP, LP, q, "a", q, RP, CM>>,
     <<SP, SP, "CONSTRAINT", SP, q, "fk", q, SP, "FOREIGN", SP, "KEY", SP,
       LP, q, "a", q, RP, SP, "REFERENCES", SP, q, "b", q, SP, LP, q, "x", q, RP>>,
     <<"garbage">> >>

\* Every body of at most n lines of the pool, no line twice.
RECURSIVE Bodies(_, _)
Bodies(q, n) ==
  IF n = 0 THEN {<<>>}
  ELSE LET shorter == Bodies(q, n - 1)
       IN shorter \cup
          {Append(b, Pool(q)[k]) : b \in shorter, k \in DOMAIN Pool(q)}

NoRepeat(b) == \A i, j \in DOMAIN b : b[i] = b[j] => i = j

CreateLine(q, name) == <<"CREATE", SP, "TABLE", SP, q>> \o name \o <<q, SP, LP>>

OptionsLine == <<RP, SP, "ENGINE", "=", "InnoDB", SP, "AUTO_INCREMENT", "=", "5">>

\* The fixed text of table b: it refers back to table a, has a column only
\* the loose pattern matches, a partition line, an empty line, and ends in
\* the options line of ANSI mode.
BodyB(q) ==
  << ColumnLine(q, "x", <<"int", LP, "11", RP, SP, "NOT", SP, "NULL", CM>>),
     ColumnLine(q, "c", <<"enum", LP, "x", RP, CM>>),
     <<SP, SP, "KEY", SP, q, "ix", q, SP, LP, q, "x", q, RP, CM>>,
     <<SP, SP, "CONSTRAINT", SP, q, "fk2", q, SP, "FOREIGN", SP, "KEY", SP,
       LP, q, "x", q, RP, SP, "REFERENCES", SP, q, "a", q, SP, LP, q, "a", q, RP>>,
     <<SP, SP, "PARTITION", SP, "p0">>,
     <<>>,
     <<RP>> >>

\* The body of table a on the catalog whose tables refer to each other.
MutualBodyA(q) == <<Pool(q)[1], Pool(q)[7]>>

\* The rows SHOW VARIABLES LIKE 'sql_mode' can return: none, or one whose
\* second field is a number (4.0 servers) or a list of mode names.
SqlModeRows ==
  {[has |-> FALSE, mode |-> <<>>], [has |-> TRUE, mode |-> <<>>],
   [has |-> TRUE, mode |-> <<"0">>], [has |-> TRUE, mode |-> <<"4">>],
   [has |-> TRUE, mode |-> <<"STRICT_ALL_TABLES", CM, "ANSI_QUOTES">>]}

Versions == {<<4, 0>>, <<5, 0>>}

\* 4.0 servers report sql_mode as a number, later ones as names.
RowOfVersion(row, v) ==
  \/ ~row.has
  \/ (VersionBelow41(v) /\ Len(row.mode) = 1 /\ IsDigits(row.mode[1]))
  \/ (~VersionBelow41(v) /\ \A k \in DOMAIN row.mode : ~IsDigits(row.mode[k]))

(***************************************************************************)
(* MySQLSchemaReflector.reflect, one line at a time                        *)
(***************************************************************************)
\* The loop of reflect applying each key as soon as its line is met.
reflect_other_at_once(line, same, pc) ==
  IF pc.type = "None"
    THEN [same EXCEPT !.diag = <<Diag("warn", "Unknown schema content", line)>>,
                      !.class = "unknown"]
  ELSE IF pc.type = "key"
    THEN [same EXCEPT !.table = set_key(same.table, pc.spec, NoOnly).table,
                      !.class = "key"]
  ELSE IF pc.type = "constraint"
    THEN [same EXCEPT !.constraints = <<pc.spec>>, !.class = "constraint"]
  ELSE [same EXCEPT !.class = "partition"]

\* The branch of the loop of reflect for a line that is no column, options,
\* end, name or empty line.
reflect_other(line, same, pc) ==
  IF pc.type = "None"
    THEN [same EXCEPT !.diag = <<Diag("warn", "Unknown schema content", line)>>,
                      !.class = "unknown"]
  ELSE IF pc.type = "key"
    THEN [same EXCEPT !.keys = <<pc.spec>>, !.class = "key"]
  ELSE IF pc.type = "constraint"
    THEN [same EXCEPT !.constraints = <<pc.spec>>, !.class = "constraint"]
  ELSE [same EXCEPT !.class = "partition"]

\* The branch of the loop of reflect for a column line.
reflect_column(same, col) ==
  [same EXCEPT !.table = col.table, !.diag = col.diag, !.exc = col.exc,
               !.class = "column"]

\* The tests of the loop of reflect, in the order of the source.
reflect_branch(line, tbl, only, q, same) ==
  IF StartsWith(line, <<SP, SP, q>>)
    THEN reflect_column(same, add_column(tbl, line, only, q))
  ELSE IF StartsWith(line, <<RP, SP>>)
    THEN [same EXCEPT !.table = set_options(tbl, line), !.class = "options"]
  ELSE IF line = <<RP>> THEN [same EXCEPT !.class = "end"]
  ELSE IF StartsWith(line, <<"CREATE", SP>>)
    THEN [same EXCEPT !.table = set_name(tbl, line, q), !.class = "name"]
  ELSE IF line = <<>> THEN [same EXCEPT !.class = "empty"]
  ELSE reflect_other(line, same, parse_constraints(line, q))

\* The body of the loop of reflect for one line: the table afterwards, the
\* diagnostics, the exception raised ("" for none), the branch taken and the
\* specifications appended to keys and to constraints.
reflect_line(line, tbl, only, q) ==
  reflect_branch(line, tbl, only, q,
                 [table |-> tbl, diag |-> <<>>, exc |-> "", class |-> "",
                  keys |-> <<>>, constraints |-> <<>>])

\* _set_constraints loading the referenced table whether the registry has
\* it or not.
ref_known_never(ref_key, registry) == FALSE

\* The test of _set_constraints that decides between the registered table
\* and a load of the referenced table.
ref_known(ref_key, registry) == ref_key \in DOMAIN registry

\* The preparer reflecttable gives a new reflector.
reflector_preparer(version, useansi, preparer) ==
  IF VersionBelow41(version) /\ useansi = "True" THEN BQ ELSE preparer

\* _autoset_identifier_style without its test of use_ansiquotes.
autoset_identifier_style_always(useansi, row) ==
  [flag |-> AutosetValue(row), probes |-> 1]

\* _autoset_identifier_style: the flag afterwards and the number of sql_mode
\* probes issued.
autoset_identifier_style(useansi, row) ==
  IF useansi # "None" THEN [flag |-> useansi, probes |-> 0]
  ELSE [flag |-> AutosetValue(row), probes |-> 1]

\* The reflector attribute being absent.
NoReflector == [has |-> FALSE, quote |-> "", epoch |-> 0]

\* The setter without its deletion of the cached reflector.
set_use_ansiquotes_keeps(useansi, cached) ==
  [flag |-> useansi, preparer |-> PreparerQuote(useansi), reflector |-> cached]

\* The use_ansiquotes setter: the flag, the identifier preparer and the
\* cached reflector afterwards.
set_use_ansiquotes(useansi, cached) ==
  [flag |-> useansi, preparer |-> PreparerQuote(useansi), reflector |-> NoReflector]

\* a < b for two tuples of integers, as Python compares tuples: by the first
\* place they differ in, a proper prefix being the lesser.
RECURSIVE TupleLess(_, _)
TupleLess(a, b) ==
  IF b = <<>> THEN FALSE
  ELSE IF a = <<>> THEN TRUE
  ELSE IF a[1] # b[1] THEN a[1] < b[1]
  ELSE TupleLess(Tail(a), Tail(b))

\* The outcome of connection.commit() or connection.rollback(): no failure,
\* or an exception with its args; an argument is an integer or a text.
NoFailure == [raised |-> FALSE, args |-> <<>>]

IntArg(n) == [int |-> TRUE, n |-> n, text |-> ""]

TextArg(t) == [int |-> FALSE, n |-> 0, text |-> t]

\* args and args[0] == 1064.
First1064(args) == args # <<>> /\ args[1].int /\ args[1].n = 1064

\* What a handler leaves its caller with: it returns, or the exception
\* error leaves it.
Returns == [status |-> "returned", error |-> NoFailure]

Raises(error) == [status |-> "raised", error |-> error]

\* do_rollback swallowing every failure on an old server.
do_rollback_any_code(version, failure) ==
  IF ~failure.raised THEN Returns
  ELSE IF TupleLess(version, <<3, 23, 15>>) THEN Returns
  ELSE Raises(failure)

\* do_commit(connection), version being _server_version_info(connection)
\* and failure the outcome of connection.commit().
do_commit(version, failure) ==
  IF ~failure.raised THEN Returns
  ELSE IF TupleLess(version, <<3, 23, 15>>) /\ First1064(failure.args)
    THEN Returns
  ELSE Raises(failure)

\* do_rollback(connection), failure the outcome of connection.rollback().
do_rollback(version, failure) ==
  IF ~failure.raised THEN Returns
  ELSE IF TupleLess(version, <<3, 23, 15>>) /\ First1064(failure.args)
    THEN Returns
  ELSE Raises(failure)

\* A connection.info without entries: "" and -1 stand for an absent charset,
\* force_charset and lower_case_table_names entry.
NoCollations == [has |-> FALSE, value |-> {}]

NewInfo ==
  [charset |-> "", casing |-> -1, collations |-> NoCollations, force |-> ""]

\* The statements the detections send.
ShowCharset == "SHOW VARIABLES LIKE 'character_set%%'"

ShowCasing == "SHOW VARIABLES LIKE 'lower_case_table_names'"

ShowCollation == "SHOW COLLATION"

\* The rows SHOW COLLATION returns, as the dict _detect_collations builds.
ServerCollations ==
  {<<"latin1_swedish_ci", "latin1">>, <<"utf8_general_ci", "utf8">>}

\* The body of _detect_charset: the value returned and the statements sent.
\* csr is the server's character_set_results for the session.
detect_charset_body(force, csr) ==
  IF force # "" THEN [value |-> force, statements |-> {}]
  ELSE [value |-> csr, statements |-> {ShowCharset}]

\* engine_base.connection_memoize(key)(fn): the entry of connection.info
\* under key is returned when there is one; otherwise fn runs and its value
\* is stored under key.  cached and ran are the two outcomes.
connection_memoize(present, cached, ran) == IF present THEN cached ELSE ran

\* _detect_charset as connection_memoize(('mysql', 'charset')) leaves it.
\* i is connection.info.
detect_charset(i, csr) ==
  connection_memoize(i.charset # "",
    [value |-> i.charset, info |-> i, statements |-> {}],
    Bind(detect_charset_body(i.force, csr), LAMBDA b :
      [value |-> b.value, info |-> [i EXCEPT !.charset = b.value],
       statements |-> b.statements]))

\* _detect_casing without its memoization.
detect_casing_unmemoized(i, csr, lctn) ==
  Bind(detect_charset(i, csr), LAMBDA c :
    [value |-> lctn, info |-> [c.info EXCEPT !.casing = lctn],
     statements |-> c.statements \cup {ShowCasing}])

\* _detect_casing, memoized under ('mysql', 'lower_case_table_names'); lctn
\* is the number the server's variable stands for.
detect_casing(i, csr, lctn) ==
  connection_memoize(i.casing # -1,
    [value |-> i.casing, info |-> i, statements |-> {}],
    Bind(detect_charset(i, csr), LAMBDA c :
      [value |-> lctn, info |-> [c.info EXCEPT !.casing = lctn],
       statements |-> c.statements \cup {ShowCasing}]))

\* server_version_info(connection) < (4, 1, 0), a comparison of tuples.
VersionBelow410(v) ==
  v[1] < 4 \/ (v[1] = 4 /\ (v[2] < 1 \/ (v[2] = 1 /\ Len(v) < 3)))

\* _detect_collations, memoized under ('mysql', 'collations').
detect_collations(i, csr, version) ==
  connection_memoize(i.collations.has,
    [value |-> i.collations.value, info |-> i, statements |-> {}],
    IF VersionBelow410(version)
      THEN [value |-> {},
            info |-> [i EXCEPT !.collations = [has |-> TRUE, value |-> {}]],
            statements |-> {}]
      ELSE Bind(detect_charset(i, csr), LAMBDA c :
        [value |-> ServerCollations,
         info |-> [c.info EXCEPT
                     !.collations = [has |-> TRUE, value |-> ServerCollations]],
         statements |-> c.statements \cup {ShowCollation}]))

\* post_exec without its branch for SET statements.
post_exec_pops_never(statement, isinsert, executemany, isupdate, should_autocommit) ==
  FALSE

\* post_exec: whether the ('mysql', 'charset') entry of connection.info is
\* popped.
post_exec_pops(statement, isinsert, executemany, isupdate, should_autocommit) ==
  /\ ~(isinsert /\ ~executemany)
  /\ ~isupdate
  /\ ~should_autocommit
  /\ statement # <<>>
  /\ SetReMatch(statement)

(***************************************************************************)
(* State                                                                   *)
(***************************************************************************)
VARIABLES
  \* the server: the row of SHOW VARIABLES LIKE 'sql_mode', the version,
  \* lower_case_table_names, the body of table a, and each connection's
  \* character_set_results
  sql_mode, server_version_info, lower_case_table_names, bodyA,
  character_set_results,
  \* the dialect: _use_ansiquotes ("None", "True", "False"), the initial
  \* quote of identifier_preparer, the cached reflector, and the number of
  \* assignments to use_ansiquotes so far
  use_ansiquotes, identifier_preparer, reflector, assignments,
  \* connection.info of each connection: the memoized charset ("" when
  \* absent) and lower_case_table_names (-1 when absent)
  info,
  \* the MetaData: the Table objects by the key they were created under,
  \* and metadata.tables, from key to object
  objs, tables,
  \* the calls of reflect in progress, innermost last
  stack,
  \* the outcome of the last top-level operation
  result,
  \* the diagnostics of the current top-level operation
  diag,
  \* history: the branch reflect took for each line, under each quote
  classified,
  \* history: the preparer and the flag at each quoting or parsing
  quoteLog,
  \* history: sql_mode probes issued, entry points called, the last one
  probes, calls, lastCall,
  \* history: the calls of reflecttable for each table key
  reflects,
  \* history: the charset probes of each connection, and the execution
  \* context whose post_exec ran last on it with the state of the charset
  \* cache it left
  charsetProbes, lastExec,
  \* top-level operations left to the run
  opsLeft,
  \* the server: the XA statements executed for each xid, in order, each
  \* with the call that issued it and whether the server accepted it
  xa

serverVars == <<sql_mode, server_version_info, lower_case_table_names, bodyA, xa>>
dialectVars == <<use_ansiquotes, identifier_preparer, reflector, assignments>>
metaVars == <<objs, tables>>
histVars == <<classified, quoteLog, probes, calls, lastCall, reflects>>

vars == <<serverVars, character_set_results, dialectVars, info, metaVars,
          stack, result, diag, histVars, charsetProbes, lastExec, opsLeft>>

NoTable == get_table_key(<<>>, <<>>)

Idle == [op |-> "", status |-> "idle", exc |-> "", tid |-> NoTable,
         only |-> NoOnly, value |-> "", code |-> 0, rs |-> "none"]

\* The allow-lists a caller passes.
Onlys ==
  {NoOnly} \cup {[given |-> TRUE, names |-> n] : n \in {{}, {<<"a">>}, {<<"a">>, <<"b">>}}}

Put(f, k, v) == [x \in DOMAIN f \cup {k} |-> IF x = k THEN v ELSE f[x]]

\* Whether ANSI_QUOTES is in the server's sql_mode.
ServerAnsi ==
  /\ sql_mode.has
  /\ IF Len(sql_mode.mode) = 1 /\ IsDigits(sql_mode.mode[1])
       THEN HasBit4(DigitValue(sql_mode.mode[1]))
       ELSE "ANSI_QUOTES" \in Range(sql_mode.mode)

\* The quote SHOW CREATE TABLE writes identifiers with: ANSI_QUOTES does not
\* affect it before 4.1.
ServerQuote ==
  IF ServerAnsi /\ ~VersionBelow41(server_version_info) THEN DQ ELSE BQ

\* Whether the server reads q as an identifier quote.
AcceptsQuote(q) == q = BQ \/ ServerAnsi

\* The name the server looks a table up by.
Stored(name) == IF lower_case_table_names = 1 THEN Lower(name) ELSE name

\* row[1].strip() of SHOW CREATE TABLE split into lines; empty when the
\* server has no such table.
ShowCreate(name) ==
  IF Stored(name) = TableA
    THEN <<CreateLine(ServerQuote, TableA)>> \o bodyA \o <<OptionsLine>>
  ELSE IF Stored(name) = TableB
    THEN <<CreateLine(ServerQuote, TableB)>> \o BodyB(ServerQuote)
  ELSE <<>>

\* No statement has run on the connection yet.
NotRun ==
  [ran |-> FALSE,
   ctx |-> [statement |-> <<>>, isinsert |-> FALSE, executemany |-> FALSE,
            isupdate |-> FALSE, forced |-> FALSE],
   autocommit |-> FALSE, cached |-> FALSE]

\* What a statement naming one table brings back: a result of rows, or the
\* SQLError that wraps the server's error code.
Rows(n, text) == [error |-> FALSE, code |-> 0, rows |-> n, text |-> text]
SQLError(code) == [error |-> TRUE, code |-> code, rows |-> 0, text |-> <<>>]

\* No call of the dialect yet.  A call is recorded with its name, the value
\* of use_ansiquotes it found, its connection, the charset _detect_charset
\* gave it, the value it returned when it is a detection, the detection
\* statements it sent, and the answer to its DESCRIBE or SHOW CREATE TABLE.
NoCall ==
  [name |-> "", before |-> "None", conn |-> "", charset |-> "", casing |-> -1,
   collations |-> {}, statements |-> {}, answer |-> Rows(0, <<>>)]

\* The transaction ids of two-phase transactions.
Xids == {"x1", "x2"}

\* The dialect, the connections and the MetaData after construction; no XA
\* statement has been executed.
Constructed ==
  /\ xa = [x \in Xids |-> <<>>]
  /\ identifier_preparer = PreparerQuote(use_ansiquotes)
  /\ reflector = NoReflector
  /\ assignments = 0
  /\ info = [c \in Conns |-> NewInfo]
  /\ objs = <<>> /\ tables = <<>>
  /\ stack = <<>> /\ result = Idle /\ diag = <<>>
  /\ classified = {} /\ quoteLog = {}
  /\ probes = 0 /\ calls = 0
  /\ lastCall = NoCall
  /\ reflects = <<>>
  /\ charsetProbes = [c \in Conns |-> 0]
  /\ lastExec = [c \in Conns |-> NotRun]

\* A server in its default mode with a table a of any body, and a caller
\* with one operation to run.
InitReflect ==
  /\ sql_mode = [has |-> TRUE, mode |-> <<>>]
  /\ server_version_info = <<5, 0>>
  /\ lower_case_table_names = 0
  /\ use_ansiquotes = "None"
  /\ bodyA \in {b \in Bodies(BQ, MaxBody) : NoRepeat(b)}
  /\ opsLeft = 1
  /\ Constructed
  /\ character_set_results = [c \in Conns |-> "latin1"]

\* The lines of a table with columns of types the catalog does not have.
PoolUnknown(q) ==
  << ColumnLine(q, "g", <<"geometry", SP, "NOT", SP, "NULL", CM>>),
     ColumnLine(q, "a", <<"int", LP, "11", RP, SP, "NOT", SP, "NULL", CM>>),
     ColumnLine(q, "j", <<"json", LP, "2", RP, SP, "DEFAULT", SP, "NULL", CM>>),
     <<SP, SP, "PRIMARY", SP, "KEY", SP, SP, LP, q, "g", q, RP, CM>>,
     Pool(q)[7] >>

\* A server whose table a has up to MaxBody of these lines, in any order.
InitUnknown ==
  /\ sql_mode = [has |-> TRUE, mode |-> <<>>]
  /\ server_version_info = <<5, 0>>
  /\ lower_case_table_names = 0
  /\ use_ansiquotes = "None"
  /\ bodyA \in {b \in UNION {[1..n -> Range(PoolUnknown(BQ))] : n \in 0..MaxBody} :
                  NoRepeat(b)}
  /\ opsLeft = 1
  /\ Constructed
  /\ character_set_results = [c \in Conns |-> "latin1"]

\* Any server with the catalog whose tables a and b refer to each other, a
\* dialect constructed with use_ansiquotes given or not, and a caller with
\* several operations to run.
Init ==
  /\ sql_mode \in SqlModeRows
  /\ server_version_info \in Versions
  /\ RowOfVersion(sql_mode, server_version_info)
  /\ lower_case_table_names \in {0, 1}
  /\ use_ansiquotes \in {"None", "True", "False"}
  /\ bodyA = MutualBodyA(ServerQuote)
  /\ opsLeft = MaxOps
  /\ Constructed
  /\ character_set_results = [c \in Conns |-> "latin1"]

(***************************************************************************)
(* Table(name, metadata, autoload=True) and MySQLDialect.reflecttable      *)
(***************************************************************************)
\* _detect_charset, memoized in connection.info.
DetectCharset(conn) ==
  [info EXCEPT
     ![conn] = detect_charset(info[conn], character_set_results[conn]).info]

\* The count of the statements _detect_charset has sent on each connection.
CharsetProbed(conn) ==
  IF detect_charset(info[conn], character_set_results[conn]).statements # {}
    THEN [charsetProbes EXCEPT ![conn] = @ + 1]
    ELSE charsetProbes

\* The record of a call of an entry point that begins with _detect_charset.
CalledWithCharset(name, conn) ==
  Bind(detect_charset(info[conn], character_set_results[conn]), LAMBDA d :
    [NoCall EXCEPT !.name = name, !.before = use_ansiquotes, !.conn = conn,
                   !.charset = d.value, !.statements = d.statements])

\* The dialect after _autoset_identifier_style: the assignment to
\* use_ansiquotes goes through the setter.
Autoset ==
  LET a == autoset_identifier_style(use_ansiquotes, sql_mode)
      set == set_use_ansiquotes(a.flag, reflector)
  IN IF a.probes = 0
       THEN [flag |-> use_ansiquotes, preparer |-> identifier_preparer,
             reflector |-> reflector, assignments |-> assignments,
             probes |-> a.probes]
       ELSE [flag |-> set.flag, preparer |-> set.preparer,
             reflector |-> set.reflector, assignments |-> assignments + 1,
             probes |-> a.probes]

\* IdentifierPreparer.format_table quotes the names that need it.
NeedsQuote(name) == name # Lower(name)

Quoted(by, flag, quote) == [by |-> by, flag |-> flag, quote |-> quote]

Frame(tid, conn, only, lines, q) ==
  [tid |-> tid, conn |-> conn, only |-> only, lines |-> lines, q |-> q,
   i |-> 1, keys |-> <<>>, constraints |-> <<>>, k |-> 1, c |-> 1]

Top == stack[Len(stack)]

Phase(f) ==
  IF f.i <= Len(f.lines) THEN "lines"
  ELSE IF f.k <= Len(f.keys) THEN "keys"
  ELSE IF f.c <= Len(f.constraints) THEN "constraints"
  ELSE "done"

\* The condition the server answers in: as usual, after the connection has
\* gone away (2006), or with an empty result in place of error 1146.
Faults == {"none", "gone", "norow"}

\* DESCRIBE gives one row for each column of the table.
DescribeRows(text) ==
  Len(SelectSeq(text, LAMBDA line : StartsWith(line, <<SP, SP, ServerQuote>>)))

\* The answer to DESCRIBE or SHOW CREATE TABLE of name; quote is the quote
\* character the name was written with, "" for a bare name.
Answer(name, quote, fault) ==
  IF fault = "gone" THEN SQLError(2006)
  ELSE IF quote # "" /\ ~AcceptsQuote(quote) THEN SQLError(1064)
  ELSE IF ShowCreate(name) = <<>>
    THEN IF fault = "norow" THEN Rows(0, <<>>) ELSE SQLError(1146)
  ELSE Rows(DescribeRows(ShowCreate(name)), ShowCreate(name))

\* rs.close() under "if rs": a result set that was never opened stays None.
Close(rs) == IF rs = "open" THEN "closed" ELSE rs

Executed(answer) == IF answer.error THEN "none" ELSE "open"

has_table_any_error(answer) ==
  IF answer.error
    THEN [status |-> "returned", exc |-> "", code |-> 0, value |-> "False",
          rs |-> Close(Executed(answer))]
  ELSE [status |-> "returned", exc |-> "", code |-> 0,
        value |-> IF answer.rows > 0 THEN "True" ELSE "False",
        rs |-> Close(Close(Executed(answer)))]

\* has_table after the statement was composed: the try / except / finally
\* around connection.execute(st).
has_table(answer) ==
  IF answer.error
    THEN IF answer.code = 1146
           THEN [status |-> "returned", exc |-> "", code |-> 0,
                 value |-> "False", rs |-> Close(Executed(answer))]
         ELSE [status |-> "raised", exc |-> "SQLError", code |-> answer.code,
               value |-> "", rs |-> Close(Executed(answer))]
  ELSE [status |-> "returned", exc |-> "", code |-> 0,
        value |-> IF answer.rows > 0 THEN "True" ELSE "False",
        rs |-> Close(Close(Executed(answer)))]

show_create_table_reraises(answer) ==
  IF answer.error
    THEN [exc |-> "SQLError", code |-> answer.code, text |-> <<>>,
          rs |-> Close(Executed(answer))]
  ELSE IF answer.text = <<>>
    THEN [exc |-> "NoSuchTableError", code |-> 0, text |-> <<>>,
          rs |-> Close(Executed(answer))]
  ELSE [exc |-> "", code |-> 0, text |-> answer.text,
        rs |-> Close(Executed(answer))]

\* _show_create_table: the text of the CREATE TABLE statement, or the error
\* raised in its place.
show_create_table(answer) ==
  IF answer.error
    THEN IF answer.code = 1146
           THEN [exc |-> "NoSuchTableError", code |-> 0, text |-> <<>>,
                 rs |-> Close(Executed(answer))]
         ELSE [exc |-> "SQLError", code |-> answer.code, text |-> <<>>,
               rs |-> Close(Executed(answer))]
  ELSE IF answer.text = <<>>
    THEN [exc |-> "NoSuchTableError", code |-> 0, text |-> <<>>,
          rs |-> Close(Executed(answer))]
  ELSE [exc |-> "", code |-> 0, text |-> answer.text,
        rs |-> Close(Executed(answer))]

\* Table(name, metadata, autoload=True, autoload_with=conn,
\* include_columns=only) for a name not in the registry: the table is
\* registered, then reflecttable runs up to its call of reflect.  res is
\* the outcome record of the top-level operation this belongs to.
Load(conn, name, only, res, fault) ==
  LET key == get_table_key(name, <<>>)
      st == Autoset
      refl == IF st.reflector.has THEN st.reflector
              ELSE [has |-> TRUE,
                    quote |-> reflector_preparer(server_version_info, st.flag,
                                                 st.preparer),
                    epoch |-> st.assignments]
      answer == Answer(name, IF NeedsQuote(name) THEN st.preparer ELSE "",
                       fault)
      shown == show_create_table(answer)
      text == shown.text
      exc == shown.exc
      lowered == exc = "" /\ lower_case_table_names = 1 /\ name # Lower(name)
      registered == Put(tables, key, key)
  IN /\ info' = IF exc = ""
                  THEN [DetectCharset(conn) EXCEPT
                          ![conn].casing = lower_case_table_names]
                  ELSE DetectCharset(conn)
     /\ charsetProbes' = CharsetProbed(conn)
     /\ use_ansiquotes' = st.flag
     /\ identifier_preparer' = st.preparer
     /\ reflector' = refl
     /\ assignments' = st.assignments
     /\ probes' = probes + st.probes
     /\ calls' = calls + 1
     /\ lastCall' = [CalledWithCharset("reflecttable", conn) EXCEPT
                       !.answer = answer]
     /\ quoteLog' = quoteLog \cup
          {Quoted("format_table", st.flag, st.preparer)} \cup
          (IF exc = "" THEN {Quoted("reflect", st.flag, refl.quote)} ELSE {})
     /\ reflects' = Put(reflects, key,
                        IF key \in DOMAIN reflects THEN reflects[key] + 1 ELSE 1)
     /\ objs' = Put(objs, key,
                    NewTable(IF lowered THEN Lower(name) ELSE name, <<>>))
     /\ tables' = IF lowered
                    THEN Put(registered, get_table_key(Lower(name), <<>>), key)
                    ELSE registered
     /\ IF exc = ""
          THEN /\ stack' = Append(stack, Frame(key, conn, only, text, refl.quote))
               /\ result' = [res EXCEPT !.rs = shown.rs]
          ELSE /\ stack' = <<>>
               /\ result' = [res EXCEPT !.status = "raised", !.exc = exc,
                                        !.code = shown.code, !.rs = shown.rs]

\* A caller's Table(name, metadata, autoload=True, autoload_with=conn,
\* include_columns=only).  A name already in the registry gives the
\* registered table back.
TableAutoloadOn(conn, name, only, fault) ==
  LET key == get_table_key(name, <<>>)
      begun == [op |-> "autoload", status |-> "running", exc |-> "",
                tid |-> key, only |-> only, value |-> "", code |-> 0,
                rs |-> "none"]
  IN /\ stack = <<>> /\ opsLeft > 0
     /\ opsLeft' = opsLeft - 1
     /\ diag' = <<>>
     /\ IF key \in DOMAIN tables
          THEN /\ result' = [begun EXCEPT !.status = "returned", !.tid = tables[key]]
               /\ UNCHANGED <<dialectVars, info, metaVars, stack, quoteLog,
                              probes, calls, lastCall, reflects, charsetProbes>>
          ELSE Load(conn, name, only, begun, fault)
     /\ UNCHANGED <<serverVars, character_set_results, classified, lastExec>>

TableAutoload(conn, name, only) == TableAutoloadOn(conn, name, only, "none")

(***************************************************************************)
(* MySQLSchemaReflector.reflect, step by step                              *)
(***************************************************************************)
\* An exception leaves every call in progress.
Raise(exc) ==
  /\ stack' = <<>>
  /\ result' = [result EXCEPT !.status = "raised", !.exc = exc]

Advance(f) == stack' = [stack EXCEPT ![Len(stack)] = f]

\* One iteration of the loop over the lines of show_create.
ReflectLine ==
  /\ stack # <<>> /\ Phase(Top) = "lines"
  /\ LET f == Top
         line == f.lines[f.i]
         r == reflect_line(line, objs[f.tid], f.only, f.q)
     IN /\ objs' = [objs EXCEPT ![f.tid] = r.table]
        /\ diag' = diag \o r.diag
        /\ classified' = classified \cup {<<line, f.q, r.class>>}
        /\ IF r.exc # ""
             THEN Raise(r.exc)
             ELSE /\ Advance([f EXCEPT !.i = @ + 1, !.keys = @ \o r.keys,
                                       !.constraints = @ \o r.constraints])
                  /\ UNCHANGED result
  /\ UNCHANGED <<serverVars, character_set_results, dialectVars, info, tables,
                 quoteLog, probes, calls, lastCall, reflects, charsetProbes,
                 lastExec, opsLeft>>

\* One iteration of the loop of _set_keys.
SetKey ==
  /\ stack # <<>> /\ Phase(Top) = "keys"
  /\ LET f == Top
         r == set_key(objs[f.tid], f.keys[f.k], f.only)
     IN /\ objs' = [objs EXCEPT ![f.tid] = r.table]
        /\ diag' = diag \o r.diag
        /\ IF r.exc # ""
             THEN Raise(r.exc)
             ELSE /\ Advance([f EXCEPT !.k = @ + 1])
                  /\ UNCHANGED result
  /\ UNCHANGED <<serverVars, character_set_results, dialectVars, info, tables,
                 histVars, charsetProbes, lastExec, opsLeft>>

\* get_default_schema_name(connection): the server's current database.
DefaultSchema == <<"test">>

\* One iteration of the loop of _set_constraints.  A referenced table that is
\* not registered is loaded first, and the iteration goes on when that load
\* has returned.
SetConstraint ==
  /\ stack # <<>> /\ Phase(Top) = "constraints"
  /\ LET f == Top
         tbl == objs[f.tid]
         spec == f.constraints[f.c]
         ref_name == spec.table[Len(spec.table)]
         ref_schema == RefSchema(spec, tbl.schema, DefaultSchema)
         ref_key == get_table_key(ref_name, ref_schema)
         r == attach_foreign_key(tbl, spec, ref_schema)
     IN IF OmitsConstraint(spec, f.only)
          THEN /\ diag' = Append(diag, Diag("info", "Omitting FOREIGN KEY", spec.local))
               /\ Advance([f EXCEPT !.c = @ + 1])
               /\ UNCHANGED <<dialectVars, info, metaVars, result, quoteLog,
                              probes, calls, lastCall, reflects, charsetProbes>>
        ELSE IF ref_known(ref_key, tables)
          THEN /\ objs' = [objs EXCEPT ![f.tid] = r.table]
               /\ IF r.exc # ""
                    THEN Raise(r.exc)
                    ELSE /\ Advance([f EXCEPT !.c = @ + 1])
                         /\ UNCHANGED result
               /\ UNCHANGED <<dialectVars, info, tables, diag, quoteLog,
                              probes, calls, lastCall, reflects, charsetProbes>>
        ELSE /\ Len(stack) < MaxDepth
             /\ Load(f.conn, ref_name, NoOnly, result, "none")
             /\ UNCHANGED diag
  /\ UNCHANGED <<serverVars, character_set_results, classified, lastExec, opsLeft>>

\* reflect, reflecttable and Table(...) return.
Return ==
  /\ stack # <<>> /\ Phase(Top) = "done"
  /\ stack' = SubSeq(stack, 1, Len(stack) - 1)
  /\ result' = IF Len(stack) = 1 THEN [result EXCEPT !.status = "returned"]
               ELSE result
  /\ UNCHANGED <<serverVars, character_set_results, dialectVars, info, metaVars,
                 diag, histVars, charsetProbes, lastExec, opsLeft>>

(***************************************************************************)
(* MySQLDialect.has_table, table_names, the use_ansiquotes setter          *)
(***************************************************************************)
Began(op) == [op |-> op, status |-> "returned", exc |-> "", tid |-> NoTable,
              only |-> NoOnly, value |-> "", code |-> 0, rs |-> "none"]

\* has_table(connection, table_name): DESCRIBE of the quoted name.
HasTableOn(conn, name, fault) ==
  LET st == Autoset
      answer == Answer(name, st.preparer, fault)
      had == has_table(answer)
  IN /\ stack = <<>> /\ opsLeft > 0
     /\ opsLeft' = opsLeft - 1
     /\ diag' = <<>>
     /\ use_ansiquotes' = st.flag
     /\ identifier_preparer' = st.preparer
     /\ reflector' = st.reflector
     /\ assignments' = st.assignments
     /\ probes' = probes + st.probes
     /\ calls' = calls + 1
     /\ lastCall' = [NoCall EXCEPT !.name = "has_table",
                                    !.before = use_ansiquotes, !.conn = conn,
                                    !.answer = answer]
     /\ quoteLog' = quoteLog \cup {Quoted("has_table", st.flag, st.preparer)}
     /\ result' = [Began("has_table") EXCEPT
                     !.status = had.status, !.exc = had.exc,
                     !.code = had.code, !.value = had.value, !.rs = had.rs]
     /\ UNCHANGED <<serverVars, character_set_results, info, metaVars, stack,
                    classified, reflects, charsetProbes, lastExec>>

HasTable(conn, name) == HasTableOn(conn, name, "none")

\* table_names(connection, schema): SHOW TABLES FROM the quoted schema.
TableNames(conn) ==
  LET st == Autoset
      exc == IF ~AcceptsQuote(st.preparer) THEN "SQLError" ELSE ""
  IN /\ stack = <<>> /\ opsLeft > 0
     /\ opsLeft' = opsLeft - 1
     /\ diag' = <<>>
     /\ info' = DetectCharset(conn)
     /\ charsetProbes' = CharsetProbed(conn)
     /\ use_ansiquotes' = st.flag
     /\ identifier_preparer' = st.preparer
     /\ reflector' = st.reflector
     /\ assignments' = st.assignments
     /\ probes' = probes + st.probes
     /\ calls' = calls + 1
     /\ lastCall' = CalledWithCharset("table_names", conn)
     /\ quoteLog' = quoteLog \cup {Quoted("table_names", st.flag, st.preparer)}
     /\ result' = IF exc # ""
                    THEN [Began("table_names") EXCEPT !.status = "raised", !.exc = exc]
                    ELSE [Began("table_names") EXCEPT !.value = "a,b"]
     /\ UNCHANGED <<serverVars, character_set_results, metaVars, stack,
                    classified, reflects, lastExec>>

\* dialect.use_ansiquotes = useansi, by the caller.
SetUseAnsiquotes(useansi) ==
  LET set == set_use_ansiquotes(useansi, reflector)
  IN /\ stack = <<>> /\ opsLeft > 0
     /\ opsLeft' = opsLeft - 1
     /\ diag' = <<>>
     /\ use_ansiquotes' = set.flag
     /\ identifier_preparer' = set.preparer
     /\ reflector' = set.reflector
     /\ assignments' = assignments + 1
     /\ result' = Began("use_ansiquotes")
     /\ UNCHANGED <<serverVars, character_set_results, info, metaVars, stack,
                    histVars, charsetProbes, lastExec>>

(***************************************************************************)
(* Execution of a statement and MySQLExecutionContext.post_exec            *)
(***************************************************************************)
SetNames(cs) == <<"SET", SP, "NAMES", SP, cs>>

\* The execution contexts of the model.  Text statements are neither
\* inserts nor updates, and autocommit can be forced on them; a compiled
\* INSERT or UPDATE is autocommitted.
Contexts ==
  {[statement |-> SetNames("utf8"), isinsert |-> FALSE, executemany |-> FALSE,
    isupdate |-> FALSE, forced |-> a] : a \in BOOLEAN}
  \cup {[statement |-> t, isinsert |-> FALSE, executemany |-> FALSE,
         isupdate |-> FALSE, forced |-> FALSE] :
          t \in {<<"set", SP, "session", SP, "character_set_results", "=", "utf8">>,
                 <<"SELECT", SP, "1">>}}
  \cup {[statement |-> <<"INSERT", SP, "INTO", SP, "t", SP, "VALUES", SP, LP, "1", RP>>,
         isinsert |-> TRUE, executemany |-> FALSE, isupdate |-> FALSE,
         forced |-> FALSE],
        [statement |-> <<"UPDATE", SP, "t", SP, "SET", SP, "x", "=", "1">>,
         isinsert |-> FALSE, executemany |-> FALSE, isupdate |-> TRUE,
         forced |-> FALSE]}

\* ExecutionContext.should_autocommit: forced, or should_autocommit_text.
should_autocommit(ctx) == ctx.forced \/ AutocommitReMatch(ctx.statement)

\* The character_set_results the statement leaves the session with.
SessionCharset(statement, current) ==
  IF \E cs \in Charsets : statement = SetNames(cs)
    THEN statement[5]
  ELSE IF LitAt(statement, 1, <<"SET", SP, "SESSION", SP, "character_set_results", "=">>)
    THEN statement[7]
  ELSE current

\* The statement runs on the server, then post_exec.
Execute(conn, ctx) ==
  LET pops == post_exec_pops(ctx.statement, ctx.isinsert, ctx.executemany,
                             ctx.isupdate, should_autocommit(ctx))
  IN /\ stack = <<>> /\ opsLeft > 0
     /\ opsLeft' = opsLeft - 1
     /\ diag' = <<>>
     /\ character_set_results' =
          [character_set_results EXCEPT
             ![conn] = SessionCharset(ctx.statement, @)]
     /\ info' = IF pops THEN [info EXCEPT ![conn].charset = ""] ELSE info
     /\ lastExec' = [lastExec EXCEPT
                       ![conn] = [ran |-> TRUE, ctx |-> ctx,
                                  autocommit |-> should_autocommit(ctx),
                                  cached |-> info'[conn].charset # ""]]
     /\ result' = Began("execute")
     /\ UNCHANGED <<serverVars, dialectVars, metaVars, stack, histVars,
                    charsetProbes>>

(***************************************************************************)
(* The detections called on their own, and the force_charset override      *)
(***************************************************************************)
\* What a detection call leaves alone.
DetectionFrame ==
  /\ stack = <<>> /\ opsLeft > 0
  /\ opsLeft' = opsLeft - 1
  /\ diag' = <<>>
  /\ UNCHANGED <<serverVars, character_set_results, dialectVars, metaVars,
                 stack, classified, quoteLog, probes, calls, reflects, lastExec>>

\* dialect._detect_charset(connection).
DetectCharsetCall(conn) ==
  /\ DetectionFrame
  /\ info' = DetectCharset(conn)
  /\ charsetProbes' = CharsetProbed(conn)
  /\ lastCall' = CalledWithCharset("_detect_charset", conn)
  /\ result' = Began("_detect_charset")

\* dialect._detect_casing(connection).
DetectCasingCall(conn) ==
  LET d == detect_casing(info[conn], character_set_results[conn],
                         lower_case_table_names)
  IN /\ DetectionFrame
     /\ info' = [info EXCEPT ![conn] = d.info]
     /\ charsetProbes' = IF ShowCharset \in d.statements
                           THEN [charsetProbes EXCEPT ![conn] = @ + 1]
                           ELSE charsetProbes
     /\ lastCall' = [NoCall EXCEPT !.name = "_detect_casing",
                                   !.before = use_ansiquotes, !.conn = conn,
                                   !.casing = d.value,
                                   !.statements = d.statements]
     /\ result' = Began("_detect_casing")

\* dialect._detect_collations(connection).
DetectCollationsCall(conn) ==
  LET d == detect_collations(info[conn], character_set_results[conn],
                             server_version_info)
  IN /\ DetectionFrame
     /\ info' = [info EXCEPT ![conn] = d.info]
     /\ charsetProbes' = IF ShowCharset \in d.statements
                           THEN [charsetProbes EXCEPT ![conn] = @ + 1]
                           ELSE charsetProbes
     /\ lastCall' = [NoCall EXCEPT !.name = "_detect_collations",
                                   !.before = use_ansiquotes, !.conn = conn,
                                   !.collations = d.value,
                                   !.statements = d.statements]
     /\ result' = Began("_detect_collations")

\* The user's connection.info[('mysql', 'force_charset')] = cs, or its
\* removal for the empty cs.
SetForceCharset(conn, cs) ==
  /\ stack = <<>> /\ opsLeft > 0
  /\ cs # info[conn].force
  /\ opsLeft' = opsLeft - 1
  /\ diag' = <<>>
  /\ info' = [info EXCEPT ![conn].force = cs]
  /\ result' = Began("force_charset")
  /\ UNCHANGED <<serverVars, character_set_results, dialectVars, metaVars,
                 stack, histVars, charsetProbes, lastExec>>

(***************************************************************************)
(* MySQLDialect.do_commit and do_rollback                                  *)
(***************************************************************************)
\* The failures connection.commit() and connection.rollback() end in.
Failures ==
  {NoFailure} \cup
  {[raised |-> TRUE, args |-> a] :
     a \in {<<>>, <<IntArg(1064)>>, <<IntArg(1064), TextArg("syntax")>>,
            <<IntArg(1146)>>, <<IntArg(2006), TextArg("gone")>>,
            <<TextArg("1064")>>, <<TextArg("lost"), IntArg(1064)>>}}

\* The server versions around the one COMMIT came with.
CommitVersions ==
  {<<3, 22, 32>>, <<3, 23>>, <<3, 23, 14>>, <<3, 23, 15>>, <<3, 23, 58>>,
   <<4, 0, 27>>, <<5, 0, 45>>}

\* A call of handler, which is do_commit or do_rollback, with the failure
\* the driver ends in; result.value keeps the failure and result.exc the
\* exception that reaches the caller.
Transact(op, out, failure) ==
  /\ stack = <<>> /\ opsLeft > 0
  /\ opsLeft' = opsLeft - 1
  /\ diag' = <<>>
  /\ result' = [Began(op) EXCEPT !.status = out.status, !.exc = out.error,
                                 !.value = failure]
  /\ UNCHANGED <<serverVars, character_set_results, dialectVars, info,
                 metaVars, stack, histVars, charsetProbes, lastExec>>

\* A call of a constructor or of a parser with the arguments args, that
\* gave out; result.value keeps both.
Apply(op, args, out) ==
  /\ stack = <<>> /\ opsLeft > 0
  /\ opsLeft' = opsLeft - 1
  /\ diag' = <<>>
  /\ result' = [Began(op) EXCEPT
                  !.status = IF out.exc = "" THEN "returned" ELSE "raised",
                  !.exc = out.exc,
                  !.value = [args |-> args, out |-> out]]
  /\ UNCHANGED <<serverVars, character_set_results, dialectVars, info,
                 metaVars, stack, histVars, charsetProbes, lastExec>>

\* The values a caller gives for precision and scale.
NumericArgs == {None, Given(0), Given(2), Given(10)}

\* MSDouble(precision, scale), MSReal(precision, scale) and
\* MSFloat(precision, scale).
ConstructDouble(precision, scale) ==
  Apply("MSDouble", <<precision, scale>>, MSDouble(precision, scale))

ConstructReal(precision, scale) ==
  Apply("MSReal", <<precision, scale>>, MSReal(precision, scale))

ConstructFloat(precision, scale) ==
  Apply("MSFloat", <<precision, scale>>, MSFloat(precision, scale))

\* The literals a caller gives an ENUM: the strings of at most MaxLiteral
\* characters, each a quote or a letter.
MaxLiteral == 4
MaxEnums == 2

\* The options of one options line.
MaxOptions == 3

\* The characters of the text of a text() expression.
MaxText == 5

\* The columns of a table to create.
MaxColumns == 3

RECURSIVE Strings(_, _)
Strings(alphabet, n) ==
  IF n = 0 THEN {<<>>}
  ELSE Strings(alphabet, n - 1) \cup
       {Append(w, c) : w \in Strings(alphabet, n - 1), c \in alphabet}

Literals == Strings({SQ, DQ, "a"}, MaxLiteral)

EnumLists == Strings(Literals, MaxEnums)

\* MSEnum(*enums), with quoting left at 'auto'.
ConstructEnum(enums) == Apply("MSEnum", enums, MSEnum(enums, "auto"))

\* The column definitions a server prints: a type word, an argument or
\* none, and any of the clauses.
ColumnInputs ==
  [coltype : {"tinyint", "int", "varchar"},
   arg : {<<>>, <<"1">>, <<"01">>, <<"2">>, <<"4">>, <<"11">>},
   unsigned : BOOLEAN, zerofill : BOOLEAN,
   charset : {"", "utf8"}, collate : {"", "utf8_bin"},
   notnull : BOOLEAN, default : {<<>>, <<"NULL">>, <<SQ, "x", SQ>>},
   autoincr : BOOLEAN, comment : BOOLEAN]

\* The line of SHOW CREATE TABLE for the column c defined by d.
ColumnText(d) ==
  ColumnLine(BQ, "c",
    <<d.coltype>>
    \o (IF d.arg # <<>> THEN <<LP>> \o d.arg \o <<RP>> ELSE <<>>)
    \o (IF d.unsigned THEN <<SP, "unsigned">> ELSE <<>>)
    \o (IF d.zerofill THEN <<SP, "zerofill">> ELSE <<>>)
    \o (IF d.charset # "" THEN <<SP, "CHARACTER", SP, "SET", SP, d.charset>>
        ELSE <<>>)
    \o (IF d.collate # "" THEN <<SP, "COLLATE", SP, d.collate>> ELSE <<>>)
    \o (IF d.notnull THEN <<SP, "NOT", SP, "NULL">> ELSE <<>>)
    \o (IF d.default # <<>> THEN <<SP, "DEFAULT", SP>> \o d.default ELSE <<>>)
    \o (IF d.autoincr THEN <<SP, "AUTO_INCREMENT">> ELSE <<>>)
    \o (IF d.comment THEN <<SP, "COMMENT", SP, SQ, "note", SQ>> ELSE <<>>)
    \o <<CM>>)

\* _add_column(table, line, charset, only) for a new table and the line of
\* the definition d.
AddColumn(d) ==
  Apply("add_column", d,
        add_column(NewTable(<<"t">>, <<>>), ColumnText(d), NoOnly, BQ))

\* The instances a caller declares columns with.
Flags == {<<u, z>> : u \in BOOLEAN, z \in BOOLEAN}

Descriptors ==
  {Descriptor(cls, w, None, f[1], f[2]) :
     cls \in {"MSInteger", "MSBigInteger", "MSMediumInteger", "MSTinyInteger",
              "MSSmallInteger"},
     w \in {None, Given(1), Given(4), Given(11)}, f \in Flags}
  \cup {Descriptor(cls, ps[1], ps[2], f[1], f[2]) :
          cls \in {"MSNumeric", "MSDecimal"},
          ps \in {<<Given(10), Given(2)>>, <<Given(5), Given(0)>>}, f \in Flags}
  \cup {Descriptor(cls, ps[1], ps[2], f[1], f[2]) :
          cls \in {"MSDouble", "MSReal"},
          ps \in {<<None, None>>, <<Given(10), Given(2)>>}, f \in Flags}
  \cup {Descriptor("MSFloat", ps[1], ps[2], f[1], f[2]) :
          ps \in {<<None, None>>, <<Given(10), None>>, <<Given(10), Given(2)>>},
          f \in Flags}
  \cup {Descriptor("MSString", n, None, FALSE, FALSE) : n \in {None, Given(32)}}
  \cup {Descriptor("MSChar", Given(10), None, FALSE, FALSE),
        Descriptor("MSBoolean", None, None, FALSE, FALSE)}

\* The column line with the DDL text of type_; with lowered, the type word
\* in lower case as SHOW CREATE TABLE prints type words.
TypeLine(type_, lowered) ==
  ColumnLine(BQ, "c",
    IF lowered THEN [process(type_) EXCEPT ![1] = LowerWord(@)]
    ELSE process(type_))

\* The type compiler's text of type_ given to _add_column.
RoundTrip(type_, lowered) ==
  Apply("round_trip", [type_ |-> type_, lowered |-> lowered],
        add_column(NewTable(<<"t">>, <<>>), TypeLine(type_, lowered), NoOnly,
                   BQ))

\* The referential actions of a FOREIGN KEY line, and no clause.
ReferentialActions ==
  {<<"RESTRICT">>, <<"CASCADE">>, <<"SET", SP, "NULL">>, <<"NO", SP, "ACTION">>}

ConstraintInputs ==
  [match : BOOLEAN, ondelete : ReferentialActions \cup {<<>>},
   onupdate : ReferentialActions \cup {<<>>}]

\* The CONSTRAINT line of SHOW CREATE TABLE for a foreign key of column x
\* with the clauses of d.
ConstraintText(d) ==
  <<SP, SP, "CONSTRAINT", SP, BQ, "fk", BQ, SP, "FOREIGN", SP, "KEY", SP,
    LP, BQ, "x", BQ, RP, SP, "REFERENCES", SP, BQ, "a", BQ, SP,
    LP, BQ, "a", BQ, RP>>
  \o (IF d.match THEN <<SP, "MATCH", SP, "FULL">> ELSE <<>>)
  \o (IF d.ondelete # <<>> THEN <<SP, "ON", SP, "DELETE", SP>> \o d.ondelete
      ELSE <<>>)
  \o (IF d.onupdate # <<>> THEN <<SP, "ON", SP, "UPDATE", SP>> \o d.onupdate
      ELSE <<>>)

\* A table with the one column x.
TableOfX ==
  add_column(NewTable(<<"t">>, <<>>),
             ColumnLine(BQ, "x", <<"int", LP, "11", RP, CM>>), NoOnly, BQ).table

\* parse_constraints(line) and the end of the iteration of _set_constraints
\* for its specification, the referenced table being at hand.
ConstraintLine(d) ==
  Apply("set_constraints", d,
        Bind(parse_constraints(ConstraintText(d), BQ), LAMBDA parsed :
          IF parsed.type # "constraint"
            THEN [exc |-> "", type |-> parsed.type, spec |-> NoConstraint,
                  table |-> TableOfX]
            ELSE Bind(attach_foreign_key(TableOfX, parsed.spec, <<>>), LAMBDA r :
                   [exc |-> r.exc, type |-> parsed.type, spec |-> parsed.spec,
                    table |-> r.table])))

\* The options of the last line of SHOW CREATE TABLE, as the server prints
\* them: directive, '=', value.  key is the lower-cased directive.
OptionList ==
  << [text |-> <<"ENGINE", "=", "InnoDB">>, key |-> "engine",
      val |-> "InnoDB", quoted |-> FALSE],
     [text |-> <<"AUTO_INCREMENT", "=", "5">>, key |-> "auto_increment",
      val |-> "5", quoted |-> FALSE],
     [text |-> <<"DEFAULT", SP, "CHARSET", "=", "latin1">>,
      key |-> "default charset", val |-> "latin1", quoted |-> FALSE],
     [text |-> <<"MAX_ROWS", "=", "10">>, key |-> "max_rows",
      val |-> "10", quoted |-> FALSE],
     [text |-> <<"COMMENT", "=", SQ, "a", SQ>>, key |-> "comment",
      val |-> "a", quoted |-> TRUE],
     [text |-> <<"DATA_DIRECTORY", "=", SQ, "d", SQ>>, key |-> "data_directory",
      val |-> "d", quoted |-> TRUE] >>

Options == {OptionList[k] : k \in DOMAIN OptionList}

\* At most MaxOptions of the options, in any order, none of them twice.
OptionOrders ==
  {o \in UNION {[1..n -> Options] : n \in 0..MaxOptions} :
     \A i, j \in DOMAIN o : i # j => o[i] # o[j]}

\* The line ') ' and the options o, a space between them.
RECURSIVE OptionsText(_)
OptionsText(o) ==
  IF o = <<>> THEN <<RP>>
  ELSE OptionsText(SubSeq(o, 1, Len(o) - 1)) \o <<SP>> \o o[Len(o)].text

\* _set_options(table, line) on a table that has no options yet.
SetOptions(o) ==
  Apply("set_options", o,
        [exc |-> "", table |-> set_options(NewTable(<<"t">>, <<>>), OptionsText(o))])

(***************************************************************************)
(* MySQLCompiler                                                           *)
(***************************************************************************)
NL == "NEWLINE"

\* '%s' % n for the limit the code puts in when the select has none.
NoLimit == "18446744073709551615"

\* A limit_clause that takes a limit or an offset of 0 for none.
limit_clause_truthy(limit, offset) ==
  IF ~(limit.given /\ limit.n # 0) /\ ~(offset.given /\ offset.n # 0) THEN <<>>
  ELSE IF offset.given /\ offset.n # 0
    THEN <<SP, NL, SP, "LIMIT", SP, Decimal(offset.n), CM, SP,
           IF limit.given /\ limit.n # 0 THEN Decimal(limit.n) ELSE NoLimit>>
  ELSE <<SP, NL, SP, "LIMIT", SP, Decimal(limit.n)>>

\* MySQLCompiler.limit_clause(select), for select._limit and select._offset.
limit_clause(limit, offset) ==
  IF limit = None /\ offset = None THEN <<>>
  ELSE IF offset # None
    THEN <<SP, NL, SP, "LIMIT", SP, Decimal(offset.n), CM, SP,
           IF limit = None THEN NoLimit ELSE Decimal(limit.n)>>
  ELSE <<SP, NL, SP, "LIMIT", SP, Decimal(limit.n)>>

\* The limits and offsets of a select.
LimitValues == {None} \cup {Given(n) : n \in {0, 1, 2, 5, 10}}

LimitClause(limit, offset) ==
  Apply("limit_clause", [limit |-> limit, offset |-> offset],
        [exc |-> "", text |-> limit_clause(limit, offset)])

\* A replace that doubles the first '%' only.
RECURSIVE double_first(_)
double_first(text) ==
  IF text = <<>> THEN <<>>
  ELSE IF text[1] = "%" THEN <<"%", "%">> \o Tail(text)
  ELSE <<text[1]>> \o double_first(Tail(text))

\* text.replace('%', '%%').
RECURSIVE double_percent(_)
double_percent(text) ==
  IF text = <<>> THEN <<>>
  ELSE (IF text[1] = "%" THEN <<"%", "%">> ELSE <<text[1]>>)
       \o double_percent(Tail(text))

\* MySQLCompiler.post_process_text(text): the text returned and whether
\* util.warn was called.
post_process_text(text) ==
  [exc |-> "",
   warned |-> \E i \in 1..(Len(text) - 1) : text[i] = "%" /\ text[i + 1] = "%",
   text |-> double_percent(text)]

\* The texts of text(): at most MaxText characters, each '%' or a letter.
Texts == Strings({"%", "a"}, MaxText)

PostProcessText(text) == Apply("post_process_text", text, post_process_text(text))

\* The classes of types by the bases visit_typeclause tests for.
IntegerClasses ==
  {"MSInteger", "MSBigInteger", "MSMediumInteger", "MSTinyInteger", "MSSmallInteger"}
TextClasses == {"MSText", "MSTinyText", "MSMediumText", "MSLongText"}
StringClasses == {"MSString", "MSChar", "MSNVarChar", "MSNChar"}
BinaryClasses ==
  {"MSVarBinary", "MSBinary", "MSBlob", "MSTinyBlob", "MSMediumBlob", "MSLongBlob"}

\* What visit_typeclause returns: None, or the spelling of the type in CAST.
NoSpelling == [none |-> TRUE, text |-> <<>>]
Spelling(text) == [none |-> FALSE, text |-> text]

\* text.replace('NUMERIC', 'DECIMAL').
ReplaceNumeric(text) ==
  [i \in DOMAIN text |-> IF text[i] = "NUMERIC" THEN "DECIMAL" ELSE text[i]]

\* A visit_typeclause that takes MSEnum and MSSet for the strings they
\* derive from.
visit_typeclause_strings(type_) ==
  IF type_.cls \in IntegerClasses
    THEN Spelling(IF type_.unsigned THEN <<"UNSIGNED", SP, "INTEGER">>
                  ELSE <<"SIGNED", SP, "INTEGER">>)
  ELSE IF type_.cls \in {"MSDecimal", "MSDateTime", "MSDate", "MSTime"}
    THEN Spelling(process(type_))
  ELSE IF type_.cls \in TextClasses THEN Spelling(<<"CHAR">>)
  ELSE IF type_.cls \in StringClasses \cup {"MSEnum", "MSSet"}
    THEN Spelling(IF type_.first.given /\ type_.first.n # 0
                    THEN OneArg("CHAR", type_.first.n) ELSE <<"CHAR">>)
  ELSE IF type_.cls \in BinaryClasses THEN Spelling(<<"BINARY">>)
  ELSE IF type_.cls = "MSNumeric" THEN Spelling(ReplaceNumeric(process(type_)))
  ELSE IF type_.cls = "MSTimeStamp" THEN Spelling(<<"DATETIME">>)
  ELSE NoSpelling

\* MySQLCompiler.visit_typeclause(typeclause), type_ the dialect's
\* implementation of the type of the clause.
visit_typeclause(type_) ==
  IF type_.cls \in IntegerClasses
    THEN Spelling(IF type_.unsigned THEN <<"UNSIGNED", SP, "INTEGER">>
                  ELSE <<"SIGNED", SP, "INTEGER">>)
  ELSE IF type_.cls \in {"MSDecimal", "MSDateTime", "MSDate", "MSTime"}
    THEN Spelling(process(type_))
  ELSE IF type_.cls \in TextClasses THEN Spelling(<<"CHAR">>)
  ELSE IF type_.cls \in StringClasses
    THEN Spelling(IF type_.first.given /\ type_.first.n # 0
                    THEN OneArg("CHAR", type_.first.n) ELSE <<"CHAR">>)
  ELSE IF type_.cls \in BinaryClasses THEN Spelling(<<"BINARY">>)
  ELSE IF type_.cls = "MSNumeric" THEN Spelling(ReplaceNumeric(process(type_)))
  ELSE IF type_.cls = "MSTimeStamp" THEN Spelling(<<"DATETIME">>)
  ELSE NoSpelling

\* MySQLCompiler.visit_cast(cast), clause the text process(cast.clause)
\* gives.
visit_cast(type_, clause) ==
  Bind(visit_typeclause(type_), LAMBDA spelling :
    IF spelling.none THEN clause
    ELSE <<"CAST", LP>> \o clause \o <<SP, "AS", SP>> \o spelling.text \o <<RP>>)

\* The types a cast is made to, and the expressions cast.
CastTypes ==
  {Descriptor(cls, None, None, u, FALSE) : cls \in IntegerClasses, u \in BOOLEAN}
  \cup {Descriptor(cls, a[1], a[2], u, FALSE) :
          cls \in {"MSNumeric", "MSDecimal"},
          a \in {<<None, None>>, <<Given(10), Given(2)>>}, u \in BOOLEAN}
  \cup {Descriptor(cls, length, None, FALSE, FALSE) :
          cls \in StringClasses, length \in {None, Given(0), Given(32)}}
  \cup {Descriptor(cls, None, None, FALSE, FALSE) :
          cls \in TextClasses \cup BinaryClasses \cup
                  {"MSDateTime", "MSDate", "MSTime", "MSTimeStamp", "MSYear",
                   "MSDouble", "MSReal", "MSFloat", "MSBit", "MSBoolean",
                   "MSEnum", "MSSet"}}

CastClauses == {<<"x">>, <<"t", ".", "x">>}

VisitCast(type_, clause) ==
  Apply("visit_cast", [type_ |-> type_, clause |-> clause],
        [exc |-> "", text |-> visit_cast(type_, clause)])

(***************************************************************************)
(* MSEnum.bind_processor                                                   *)
(***************************************************************************)
\* A bound value: None or a string; converted is set by the processor of
\* the parent class, String.
NoValue == [none |-> TRUE, s |-> <<>>, converted |-> FALSE]
Value(s) == [none |-> FALSE, s |-> s, converted |-> FALSE]

\* super_convert(value).
super_convert(value) == [value EXCEPT !.converted = TRUE]

\* A process that checks nothing.
enum_process_unchecked(type_, strict, has_super, value) ==
  [exc |-> "", value |-> IF has_super THEN super_convert(value) ELSE value]

\* The process function MSEnum.bind_processor returns, applied to value;
\* has_super says whether the parent class gave a processor.
enum_process(type_, strict, has_super, value) ==
  IF strict /\ ~value.none /\ (\A k \in DOMAIN type_.enums : type_.enums[k] # value.s)
    THEN [exc |-> "InvalidRequestError", value |-> NoValue]
    ELSE [exc |-> "", value |-> IF has_super THEN super_convert(value) ELSE value]

\* The literals ENUM types are declared with, and the values bound.
BoundEnums ==
  {<<>>, << <<"a">> >>, << <<"a">>, <<"b">> >>,
   << <<SQ, "a", SQ>>, <<SQ, "b", SQ>> >>}

BoundValues ==
  {NoValue} \cup {Value(v) : v \in {<<>>, <<"a">>, <<"b">>, <<"c">>, <<SQ, "a", SQ>>}}

\* MSEnum(*enums, strict=strict).bind_processor(dialect)(value).
EnumBind(enums, strict, has_super, value) ==
  Apply("enum_bind",
        [enums |-> enums, strict |-> strict, has_super |-> has_super,
         value |-> value],
        enum_process(MSEnum(enums, "auto"), strict, has_super, value))

(***************************************************************************)
(* _autoset_identifier_style on every row                                  *)
(***************************************************************************)
\* The rows of SHOW VARIABLES LIKE 'sql_mode': none, one with an empty or
\* NULL value, one with a number, one with a list of names.
ModeRows ==
  {[has |-> FALSE, mode |-> <<>>], [has |-> TRUE, mode |-> <<>>]}
  \cup {[has |-> TRUE, mode |-> <<d>>] : d \in DigitLexemes \ {"01"}}
  \cup {[has |-> TRUE, mode |-> m] :
          m \in {<<"STRICT_ALL_TABLES">>, <<"ANSI_QUOTES">>,
                 <<"STRICT_ALL_TABLES", CM, "ANSI_QUOTES">>,
                 <<"ANSI_QUOTES", CM, "STRICT_ALL_TABLES">>,
                 <<"REAL_AS_FLOAT", CM, "PIPES_AS_CONCAT">>}}

\* _autoset_identifier_style(connection) of a dialect whose use_ansiquotes
\* is useansi, on a server that answers with row.
AutosetStyle(useansi, row) ==
  Apply("autoset_identifier_style", [useansi |-> useansi, row |-> row],
        [exc |-> "", style |-> autoset_identifier_style(useansi, row)])

(***************************************************************************)
(* MySQLDDLCompiler.get_column_specification                               *)
(***************************************************************************)
\* The columns of a table to create: each is or is not of the primary key,
\* has autoincrement set or not, is of an Integer type or of a string type
\* and has foreign keys or none.  A column of the primary key is not
\* nullable, and none has a default.
CreateColumns ==
  [primary_key : BOOLEAN, autoincrement : BOOLEAN, integer : BOOLEAN,
   foreign_keys : BOOLEAN]

CreateTables == UNION {[1..n -> CreateColumns] : n \in 1..MaxColumns}

\* The indexes of the columns c of table.primary_key.columns with
\* c.autoincrement, an Integer type and no foreign keys.
AutoCandidates(columns) ==
  {k \in DOMAIN columns :
     /\ columns[k].primary_key /\ columns[k].autoincrement
     /\ columns[k].integer /\ ~columns[k].foreign_keys}

\* The name and the type of the k-th column: the first two elements of
\* colspec.
ColspecHead(columns, k) ==
  <<<<"gid", "id", "k">>[k], SP>>
  \o (IF columns[k].integer THEN <<"INTEGER">> ELSE OneArg("VARCHAR", 32))
  \o (IF columns[k].primary_key THEN <<SP, "NOT", SP, "NULL">> ELSE <<>>)

\* A get_column_specification that does not ask whether the column is the
\* first of the candidates.
get_column_specification_each(columns, k) ==
  ColspecHead(columns, k)
  \o (IF k \in AutoCandidates(columns) THEN <<SP, "AUTO_INCREMENT">> ELSE <<>>)

\* MySQLDDLCompiler.get_column_specification(column), column the k-th of
\* the columns of its table.
get_column_specification(columns, k) ==
  ColspecHead(columns, k)
  \o (IF /\ columns[k].primary_key /\ columns[k].autoincrement
          /\ AutoCandidates(columns) # {}
          /\ k = CHOOSE f \in AutoCandidates(columns) :
                   \A g \in AutoCandidates(columns) : f <= g
        THEN <<SP, "AUTO_INCREMENT">> ELSE <<>>)

\* The column specifications of CREATE TABLE for a table of these columns.
CreateTable(columns) ==
  Apply("get_column_specification", columns,
        [exc |-> "",
         specs |-> [k \in DOMAIN columns |-> get_column_specification(columns, k)]])

(***************************************************************************)
(* Two-phase transactions                                                  *)
(***************************************************************************)
\* The statements each method executes, in order.
do_begin_twophase == <<"XA BEGIN">>

do_prepare_twophase == <<"XA END", "XA PREPARE">>

do_rollback_twophase(is_prepared) ==
  (IF ~is_prepared THEN <<"XA END">> ELSE <<>>) \o <<"XA ROLLBACK">>

\* A do_commit_twophase that commits whatever is_prepared says.
do_commit_twophase_direct(is_prepared) == <<"XA COMMIT">>

do_commit_twophase(is_prepared) ==
  (IF ~is_prepared THEN do_prepare_twophase ELSE <<>>) \o <<"XA COMMIT">>

\* A call of one of the methods for xid: its statements are executed in
\* order; the fault-th of them (none when fault is 0) raises, and the call
\* ends there with the exception.
TwoPhase(op, statements, xid, is_prepared, fault) ==
  /\ stack = <<>> /\ opsLeft > 0
  /\ fault <= Len(statements)
  /\ opsLeft' = opsLeft - 1
  /\ diag' = <<>>
  /\ xa' = [xa EXCEPT ![xid] = @ \o
             [k \in 1..(IF fault = 0 THEN Len(statements) ELSE fault) |->
                [statement |-> statements[k], ok |-> k # fault, op |-> op,
                 is_prepared |-> is_prepared]]]
  /\ result' = [Began(op) EXCEPT
                  !.status = IF fault = 0 THEN "returned" ELSE "raised",
                  !.exc = IF fault = 0 THEN "" ELSE "SQLError",
                  !.value = [xid |-> xid, is_prepared |-> is_prepared,
                             fault |-> fault]]
  /\ UNCHANGED <<sql_mode, server_version_info, lower_case_table_names, bodyA,
                 character_set_results, dialectVars, info, metaVars, stack,
                 histVars, charsetProbes, lastExec>>

DoBeginTwophase(xid, fault) ==
  TwoPhase("do_begin_twophase", do_begin_twophase, xid, TRUE, fault)

DoPrepareTwophase(xid, fault) ==
  TwoPhase("do_prepare_twophase", do_prepare_twophase, xid, TRUE, fault)

DoRollbackTwophase(xid, is_prepared, fault) ==
  TwoPhase("do_rollback_twophase", do_rollback_twophase(is_prepared), xid,
           is_prepared, fault)

DoCommitTwophase(xid, is_prepared, fault) ==
  TwoPhase("do_commit_twophase", do_commit_twophase(is_prepared), xid,
           is_prepared, fault)

DoCommit(failure) ==
  Transact("do_commit", do_commit(server_version_info, failure), failure)

DoRollback(failure) ==
  Transact("do_rollback", do_rollback(server_version_info, failure), failure)

(***************************************************************************)
(* Specification                                                           *)
(***************************************************************************)
\* A step of a call of reflect in progress.
ReflectStep == ReflectLine \/ SetKey \/ SetConstraint \/ Return

Next ==
  \/ \E conn \in Conns, name \in AskedNames, only \in Onlys :
       TableAutoload(conn, name, only)
  \/ ReflectStep
  \/ \E conn \in Conns, name \in AskedNames : HasTable(conn, name)
  \/ \E conn \in Conns : TableNames(conn)
  \/ \E useansi \in {"True", "False"} : SetUseAnsiquotes(useansi)
  \/ \E conn \in Conns, ctx \in Contexts : Execute(conn, ctx)

Spec == Init /\ [][Next]_vars

\* The reflection of one table of any body, with any allow-list.
NextReflect ==
  \/ \E name \in AskedNames, only \in Onlys : TableAutoload("c1", name, only)
  \/ ReflectLine
  \/ SetKey
  \/ SetConstraint
  \/ Return

SpecReflect == InitReflect /\ [][NextReflect]_vars

\* The entry points of reflection and the use_ansiquotes setter on any
\* server, over one connection.
NextQuoting ==
  \/ \E name \in AskedNames : TableAutoload("c1", name, NoOnly)
  \/ ReflectLine
  \/ SetKey
  \/ SetConstraint
  \/ Return
  \/ \E name \in AskedNames : HasTable("c1", name)
  \/ TableNames("c1")
  \/ \E useansi \in {"True", "False"} : SetUseAnsiquotes(useansi)

SpecQuoting == Init /\ [][NextQuoting]_vars

\* A server in its default mode with the mutual catalog.
InitCharset ==
  /\ sql_mode = [has |-> TRUE, mode |-> <<>>]
  /\ server_version_info = <<5, 0>>
  /\ lower_case_table_names = 0
  /\ use_ansiquotes = "None"
  /\ bodyA = MutualBodyA(ServerQuote)
  /\ opsLeft = MaxOps
  /\ Constructed
  /\ character_set_results = [c \in Conns |-> "latin1"]

\* Statements and charset detection on every connection.
NextCharset ==
  \/ \E conn \in Conns : TableAutoload(conn, TableA, NoOnly)
  \/ ReflectLine
  \/ SetKey
  \/ SetConstraint
  \/ Return
  \/ \E conn \in Conns : TableNames(conn)
  \/ \E conn \in Conns, ctx \in Contexts : Execute(conn, ctx)

SpecCharset == InitCharset /\ [][NextCharset]_vars

\* A server of either version and casing, and a caller of the detections.
InitDetect ==
  /\ sql_mode = [has |-> FALSE, mode |-> <<>>]
  /\ server_version_info \in Versions
  /\ lower_case_table_names \in {0, 1}
  /\ use_ansiquotes = "None"
  /\ bodyA = MutualBodyA(ServerQuote)
  /\ opsLeft = MaxOps
  /\ Constructed
  /\ character_set_results = [c \in Conns |-> "latin1"]

\* The detections, the override, SET NAMES with and without autocommit
\* forced, and table_names, on every connection.
NextDetect ==
  \/ \E conn \in Conns : DetectCharsetCall(conn)
  \/ \E conn \in Conns : DetectCasingCall(conn)
  \/ \E conn \in Conns : DetectCollationsCall(conn)
  \/ \E conn \in Conns, cs \in Charsets \cup {""} : SetForceCharset(conn, cs)
  \/ \E conn \in Conns :
       \E ctx \in {c \in Contexts : c.statement = SetNames("utf8")} :
         Execute(conn, ctx)
  \/ \E conn \in Conns : TableNames(conn)

SpecDetect == InitDetect /\ [][NextDetect]_vars

\* A server of any of the versions, and a caller that commits and rolls
\* back.
InitCommit ==
  /\ sql_mode = [has |-> FALSE, mode |-> <<>>]
  /\ server_version_info \in CommitVersions
  /\ lower_case_table_names = 0
  /\ use_ansiquotes = "None"
  /\ bodyA = MutualBodyA(BQ)
  /\ opsLeft = MaxOps
  /\ Constructed
  /\ character_set_results = [c \in Conns |-> "latin1"]

NextCommit ==
  \/ \E failure \in Failures : DoCommit(failure)
  \/ \E failure \in Failures : DoRollback(failure)

SpecCommit == InitCommit /\ [][NextCommit]_vars

\* The calls of the two-phase methods, in any order, for any xid; any
\* statement may raise.
NextTwoPhase ==
  \/ \E xid \in Xids, fault \in 0..1 : DoBeginTwophase(xid, fault)
  \/ \E xid \in Xids, fault \in 0..2 : DoPrepareTwophase(xid, fault)
  \/ \E xid \in Xids, is_prepared \in BOOLEAN, fault \in 0..2 :
       DoRollbackTwophase(xid, is_prepared, fault)
  \/ \E xid \in Xids, is_prepared \in BOOLEAN, fault \in 0..3 :
       DoCommitTwophase(xid, is_prepared, fault)

SpecTwoPhase == InitCharset /\ [][NextTwoPhase]_vars

\* A caller that constructs types.
NextTypes ==
  \/ \E precision, scale \in NumericArgs : ConstructDouble(precision, scale)
  \/ \E precision, scale \in NumericArgs : ConstructReal(precision, scale)
  \/ \E precision, scale \in NumericArgs : ConstructFloat(precision, scale)
  \/ \E enums \in EnumLists : ConstructEnum(enums)

\* One call of a constructor.
InitTypes ==
  /\ sql_mode = [has |-> TRUE, mode |-> <<>>]
  /\ server_version_info = <<5, 0>>
  /\ lower_case_table_names = 0
  /\ use_ansiquotes = "None"
  /\ bodyA = MutualBodyA(ServerQuote)
  /\ opsLeft = 1
  /\ Constructed
  /\ character_set_results = [c \in Conns |-> "latin1"]

SpecTypes == InitTypes /\ [][NextTypes]_vars

SpecUnknown == InitUnknown /\ [][NextReflect]_vars

\* The reflection of one column definition.
NextColumns ==
  \/ \E d \in ColumnInputs : AddColumn(d)
  \/ \E type_ \in Descriptors, lowered \in BOOLEAN : RoundTrip(type_, lowered)
  \/ \E d \in ConstraintInputs : ConstraintLine(d)
  \/ \E o \in OptionOrders : SetOptions(o)

SpecColumns == InitTypes /\ [][NextColumns]_vars

\* One call of a function of the compiler, of a type or of the dialect.
NextCompile ==
  \/ \E limit \in LimitValues, offset \in LimitValues : LimitClause(limit, offset)
  \/ \E text \in Texts : PostProcessText(text)
  \/ \E type_ \in CastTypes, clause \in CastClauses : VisitCast(type_, clause)
  \/ \E enums \in BoundEnums, strict \in BOOLEAN, has_super \in BOOLEAN,
          value \in BoundValues : EnumBind(enums, strict, has_super, value)
  \/ \E useansi \in {"None", "True", "False"}, row \in ModeRows :
       AutosetStyle(useansi, row)
  \/ \E columns \in CreateTables : CreateTable(columns)

SpecCompile == InitTypes /\ [][NextCompile]_vars

\* has_table and reflecttable on any server, in any of its conditions.
NextProbe ==
  \/ \E conn \in Conns, name \in AskedNames, fault \in Faults :
       HasTableOn(conn, name, fault)
  \/ \E name \in AskedNames, fault \in Faults :
       TableAutoloadOn("c1", name, NoOnly, fault)
  \/ ReflectLine
  \/ SetKey
  \/ SetConstraint
  \/ Return
  \/ \E useansi \in {"True", "False"} : SetUseAnsiquotes(useansi)

SpecProbe == Init /\ [][NextProbe]_vars

(***************************************************************************)
(* Properties of reflection                                                *)
(***************************************************************************)
\* The table the caller's Table(...) call is about.
Asked == objs[result.tid]

\* A caller's Table(...) call has come to its end.
Finished ==
  /\ result.op = "autoload"
  /\ result.status \in {"returned", "raised"}

\* The exceptions reflecttable raises before it calls reflect.
BeforeReflect == {"NoSuchTableError", "SQLError"}

\* What an allow-list lets through, as the documentation of reflect puts it:
\* every name when none is given, else the names in it.
Allowed(only, names) == ~only.given \/ names \subseteq only.names

\* The lines of text that begin as a column line.
ColumnLines(text, q) ==
  SelectSeq(text, LAMBDA line : StartsWith(line, <<SP, SP, q>>))

\* The names of the column lines of text a pattern matches and a type can
\* be built for, that the allow-list lets through, in the order of the text.
RECURSIVE ParsedNames(_, _, _)
ParsedNames(lines, only, q) ==
  IF lines = <<>> THEN <<>>
  ELSE Bind(parse_column(Head(lines), q), LAMBDA spec :
         Bind(ColumnType(spec), LAMBDA t :
           (IF spec.ok /\ Allowed(only, {spec.name})
               /\ Construct(t.type_, TypeArgs(t.args)) = "ok"
              THEN <<spec.name>> ELSE <<>>)
           \o ParsedNames(Tail(lines), only, q)))

\* The names of the column lines of text no pattern matches.
BadNames(text, q) ==
  {<<line[4]>> : line \in {l \in Range(ColumnLines(text, q)) :
                             ~parse_column(l, q).ok /\ Len(l) >= 4}}

BadLines(text, q) ==
  {l \in Range(ColumnLines(text, q)) : ~parse_column(l, q).ok}

\* The names of the columns of a table, in order.
ColumnSeq(tbl) == [k \in DOMAIN tbl.columns |-> tbl.columns[k].name]

\* C1: when reflect is given an allow-list, the table gets no primary key, no
\* index and no foreign key that has a column outside the allow-list.
C1_KeysWithinAllowList ==
  (result.op = "autoload" /\ result.only.given) =>
    /\ Asked.hasPk => Range(Asked.pk) \subseteq result.only.names
    /\ \A k \in DOMAIN Asked.indexes :
         Range(Asked.indexes[k].columns) \subseteq result.only.names
    /\ \A k \in DOMAIN Asked.fks :
         Range(Asked.fks[k].columns) \subseteq result.only.names

\* C2: for every allow-list given to reflect, of any size, no column whose
\* name is not in the allow-list is added to the table.
C2_ColumnsWithinAllowList ==
  (result.op = "autoload" /\ result.only.given) =>
    ColumnNames(Asked) \subseteq result.only.names

\* C3: reflect has no failure state: a call of Table(...) that got as far as
\* reflect never ends in an exception.
C3_ReflectNeverRaises ==
  (result.op = "autoload" /\ result.status = "raised") =>
    result.exc \in BeforeReflect

\* C4: when the text has a column line that matches neither pattern, that
\* line gets a diagnostic and no column, and every other column line that
\* parses and is allowed is on the table at the end, in the order of the text.
C4_BadColumnLineOnlyLosesItself ==
  (Finished /\ result.exc \notin BeforeReflect
     /\ BadLines(ShowCreate(result.tid.name), ServerQuote) # {}) =>
    /\ \A l \in BadLines(ShowCreate(result.tid.name), ServerQuote) :
         Diag("warn", "Unknown column definition", l) \in Range(diag)
    /\ BadNames(ShowCreate(result.tid.name), ServerQuote)
         \cap ColumnNames(Asked) = {}
    /\ Bind(ParsedNames(ShowCreate(result.tid.name), result.only, ServerQuote),
            LAMBDA want :
              SelectSeq(ColumnSeq(Asked), LAMBDA n : n \in Range(want)) = want)

\* The names of the columns a call of reflect has to have added when its
\* loop over the lines is over.
FrameColumns(f) == Range(ParsedNames(ColumnLines(f.lines, f.q), f.only, f.q))

\* C5: while a call of reflect is still classifying lines its table has no
\* key and no foreign key, while it applies keys the table has no foreign
\* key, and from the first key on every column that was parsed and allowed
\* is on the table.
C5_KeysAfterAllLines ==
  \A n \in DOMAIN stack :
    LET f == stack[n]
        tbl == objs[f.tid]
    IN /\ Phase(f) = "lines" =>
            ~tbl.hasPk /\ tbl.indexes = <<>> /\ tbl.fks = <<>>
       /\ Phase(f) = "keys" => tbl.fks = <<>>
       /\ Phase(f) # "lines" => FrameColumns(f) \subseteq ColumnNames(tbl)

\* A primary key is on a table whose text has the PRIMARY KEY line before a
\* column line.
C5_Witness ==
  /\ stack # <<>>
  /\ objs[Top.tid].hasPk
  /\ \E i, j \in DOMAIN Top.lines :
       /\ i < j
       /\ Top.lines[i] = Pool(Top.q)[5]
       /\ Top.lines[j] \in {Pool(Top.q)[1], Pool(Top.q)[2]}

\* The class the fixed order of tests gives a line: column, options, end,
\* name, empty, then key, constraint, partition, else unknown.
OrderedClass(line, q) ==
  IF StartsWith(line, <<SP, SP, q>>) THEN "column"
  ELSE IF StartsWith(line, <<RP, SP>>) THEN "options"
  ELSE IF line = <<RP>> THEN "end"
  ELSE IF StartsWith(line, <<"CREATE", SP>>) THEN "name"
  ELSE IF line = <<>> THEN "empty"
  ELSE IF ReKey(line, q).ok THEN "key"
  ELSE IF ReConstraint(line, q).ok THEN "constraint"
  ELSE IF RePartition(line) THEN "partition"
  ELSE "unknown"

\* C6: reflect gives each line the class of the first test that applies in
\* the fixed order, whatever lines came before it, and a line no test applies
\* to gets the 'Unknown schema content' diagnostic.
C6_ClassByFixedOrder ==
  /\ \A e \in classified : e[3] = OrderedClass(e[1], e[2])
  /\ \A n \in DOMAIN stack :
       \A i \in 1..(stack[n].i - 1) :
         (n = 1 /\ OrderedClass(stack[n].lines[i], stack[n].q) = "unknown") =>
           Diag("warn", "Unknown schema content", stack[n].lines[i]) \in Range(diag)

\* The line both the KEY and the PARTITION pattern match has been classed as
\* a key, and lines of every other class but the unknown one have been met.
C6_Witness ==
  /\ <<Pool(BQ)[6], BQ, "key">> \in classified
  /\ {"column", "options", "end", "name", "empty", "key", "constraint",
      "partition"} \subseteq {e[3] : e \in classified}

\* Table a of the catalog has its column a and its foreign key to table b,
\* which refers back to it, and no line that makes reflect raise.
MutualTables ==
  /\ {Pool(BQ)[1], Pool(BQ)[7]} \subseteq Range(bodyA)
  /\ Range(bodyA) \subseteq
       {Pool(BQ)[k] : k \in {1, 2, 3, 6, 7, 8}}
  /\ result.op = "autoload" /\ result.tid = get_table_key(TableA, <<>>)

HasForeignKey(key, name, to) ==
  /\ key \in DOMAIN objs
  /\ \E k \in DOMAIN objs[key].fks :
       objs[key].fks[k].name = name /\ objs[key].fks[k].ref_table = to

\* The steps a call of reflect in progress still has to take, at most: each
\* line left gives at most one key or constraint to apply afterwards.
Remaining(f) ==
  2 * (Len(f.lines) - f.i + 1) + (Len(f.keys) - f.k + 1)
    + (Len(f.constraints) - f.c + 1) + 1

RECURSIVE RemainingBelow(_)
RemainingBelow(n) ==
  IF n = 0 THEN 0 ELSE Remaining(stack[n]) + RemainingBelow(n - 1)

\* The steps the reflection of a table of the catalog takes, at most, when
\* the table is not in the registry yet.
Unloaded(name) ==
  IF get_table_key(name, <<>>) \in DOMAIN tables THEN 0
  ELSE 2 * Len(ShowCreate(name)) + 2

\* The work left: a bound on the number of steps to the end of the call.
Work == RemainingBelow(Len(stack)) + Unloaded(TableA) + Unloaded(TableB)

\* C7: the reflection of two tables that refer to each other comes to an
\* end: every step of a call in progress lessens the work left and the
\* nesting of loads never goes beyond the two tables.  A referenced table is
\* loaded only when its key is not in the registry, no table is reflected
\* twice, and when the call has ended each of the two tables has its foreign
\* key to the other.
C7_MutualReferencesTerminate ==
  /\ [](\A key \in DOMAIN reflects : reflects[key] <= 1)
  /\ [](Len(stack) <= 2)
  /\ [][stack # <<>> => Work' < Work]_vars
  /\ [][(stack # <<>> /\ Len(stack') > Len(stack)) =>
          stack'[Len(stack')].tid \notin DOMAIN tables]_vars
  /\ []((MutualTables /\ result.status # "running") =>
          /\ stack = <<>> /\ result.status = "returned"
          /\ HasForeignKey(get_table_key(TableA, <<>>), <<"fk">>, TableB)
          /\ HasForeignKey(get_table_key(TableB, <<>>), <<"fk2">>, TableA))

\* Both tables have been reflected, once each, and refer to each other.
C7_Witness ==
  /\ MutualTables /\ result.status = "returned"
  /\ reflects = (get_table_key(TableA, <<>>) :> 1) @@ (get_table_key(TableB, <<>>) :> 1)
  /\ HasForeignKey(get_table_key(TableA, <<>>), <<"fk">>, TableB)
  /\ HasForeignKey(get_table_key(TableB, <<>>), <<"fk2">>, TableA)

(***************************************************************************)
(* Properties of the quoting mode                                          *)
(***************************************************************************)
\* C8: reflecttable, has_table and table_names quote and parse with a
\* resolved quoting mode; a call made while use_ansiquotes is None probes
\* sql_mode once and sets the flag to True or False, and once the flag is
\* not None no call probes or changes it.
C8_QuotingModeResolvedOnce ==
  /\ [](\A e \in quoteLog :
          /\ e.flag \in {"True", "False"}
          /\ e.by # "reflect" => e.quote = PreparerQuote(e.flag))
  /\ [][calls' # calls =>
          IF use_ansiquotes = "None"
            THEN probes' = probes + 1 /\ use_ansiquotes' \in {"True", "False"}
            ELSE probes' = probes /\ use_ansiquotes' = use_ansiquotes]_vars
  /\ [][use_ansiquotes # "None" =>
          /\ probes' = probes
          /\ use_ansiquotes' # use_ansiquotes =>
               (calls' = calls /\ result'.op = "use_ansiquotes")]_vars

\* A call has probed, and a later call of another entry point found the
\* flag set and quoted with it.
C8_Witness ==
  /\ probes = 1 /\ calls >= 2
  /\ lastCall.before \in {"True", "False"}
  /\ \E e1, e2 \in quoteLog : e1.by = "has_table" /\ e2.by = "reflect"

\* C9: identifier_preparer is of the style of use_ansiquotes, a cached
\* reflector was constructed after the most recent assignment to
\* use_ansiquotes, every call of reflect in progress runs on the cached
\* reflector, an assignment leaves no older reflector behind, and
\* reflecttable keeps a cached reflector.
C9_ReflectorNewerThanAssignment ==
  /\ [](identifier_preparer = PreparerQuote(use_ansiquotes))
  /\ [](reflector.has =>
          /\ reflector.epoch = assignments
          /\ reflector.quote = reflector_preparer(server_version_info,
                                                  use_ansiquotes,
                                                  identifier_preparer))
  /\ [](\A n \in DOMAIN stack : reflector.has /\ stack[n].q = reflector.quote)
  /\ [][result'.op = "use_ansiquotes" /\ assignments' # assignments =>
          ~reflector'.has]_vars
  /\ [][(reflector.has /\ assignments' = assignments) =>
          reflector' = reflector]_vars

\* A second reflector is in use: a table was reflected, use_ansiquotes was
\* assigned, and another table is being reflected.
C9_Witness ==
  /\ stack # <<>>
  /\ reflector.has /\ reflector.epoch >= 2
  /\ \E key \in DOMAIN reflects : key # Top.tid /\ key \in DOMAIN objs

(***************************************************************************)
(* Properties of the charset cache                                         *)
(***************************************************************************)
\* The last statement executed on conn matched SET_RE.
RanSet(conn) ==
  lastExec[conn].ran /\ SetReMatch(lastExec[conn].ctx.statement)

\* C10: after post_exec of any statement of the form SET [SESSION|GLOBAL]
\* ... the connection has no cached charset.
C10_SetClearsCharsetCache ==
  \A conn \in Conns : RanSet(conn) => ~lastExec[conn].cached

\* C10, amended: after post_exec of a SET statement that is not
\* autocommitted and whose context is neither a single insert nor an update
\* the connection has no cached charset, and the detection that fills the
\* cache again probes the server.
C10_UncommittedSetClearsCharsetCache ==
  /\ [](\A conn \in Conns :
          (/\ RanSet(conn)
           /\ ~lastExec[conn].autocommit
           /\ ~lastExec[conn].ctx.isupdate
           /\ ~(lastExec[conn].ctx.isinsert /\ ~lastExec[conn].ctx.executemany))
          => ~lastExec[conn].cached)
  /\ [][\A conn \in Conns :
          (info[conn].charset = "" /\ info'[conn].charset # "") =>
            /\ charsetProbes'[conn] = charsetProbes[conn] + 1
            /\ info'[conn].charset = character_set_results[conn]]_vars

\* A connection whose charset was detected, then dropped by a SET NAMES that
\* was not autocommitted, then detected again as the new charset.
C10_Witness ==
  \E conn \in Conns :
    /\ RanSet(conn) /\ ~lastExec[conn].autocommit /\ ~lastExec[conn].cached
    /\ charsetProbes[conn] = 2
    /\ info[conn].charset = "utf8"

(***************************************************************************)
(* Properties of the per-connection detections                             *)
(***************************************************************************)
\* The step is a caller's call, on conn, of one of the dialect's methods in
\* names.
CallStep(conn, names) ==
  opsLeft' # opsLeft /\ result'.op \in names /\ lastCall'.conn = conn

\* C11: a charset detection on a connection that carries a force_charset
\* override returns the override and sends no statement, whatever the
\* connection's cache held.
C11_OverrideAlwaysWins ==
  [][\A conn \in Conns :
       (/\ info[conn].force # ""
        /\ CallStep(conn, {"_detect_charset", "table_names"}))
       => /\ lastCall'.charset = info[conn].force
          /\ lastCall'.statements = {}]_vars

\* C12: a detection whose entry is in connection.info returns the entry,
\* sends no statement and leaves connection.info alone; an entry keeps its
\* value until it is removed, which only post_exec does, to the charset of
\* its own connection; and a step on one connection leaves the entries of
\* every other connection alone.
C12_DetectionsCachedPerConnection ==
  /\ [][\A conn \in Conns :
          /\ (/\ CallStep(conn, {"_detect_charset", "table_names"})
              /\ info[conn].charset # "")
             => /\ lastCall'.charset = info[conn].charset
                /\ lastCall'.statements = {}
                /\ info'[conn].charset = info[conn].charset
          /\ (CallStep(conn, {"_detect_casing"}) /\ info[conn].casing # -1)
             => /\ lastCall'.casing = info[conn].casing
                /\ lastCall'.statements = {}
                /\ info'[conn] = info[conn]
          /\ (CallStep(conn, {"_detect_collations"}) /\ info[conn].collations.has)
             => /\ lastCall'.collations = info[conn].collations.value
                /\ lastCall'.statements = {}
                /\ info'[conn] = info[conn]]_vars
  /\ [][\A conn \in Conns :
          /\ info[conn].charset # "" =>
               \/ info'[conn].charset = info[conn].charset
               \/ /\ info'[conn].charset = ""
                  /\ lastExec'[conn].ran
                  /\ SetReMatch(lastExec'[conn].ctx.statement)
                  /\ result'.op = "execute"
          /\ info[conn].casing # -1 => info'[conn].casing = info[conn].casing
          /\ info[conn].collations.has =>
               info'[conn].collations = info[conn].collations]_vars
  /\ [][\A conn \in Conns :
          info'[conn] # info[conn] =>
            /\ \A other \in Conns \ {conn} : info'[other] = info[other]
            /\ \/ CallStep(conn, {"_detect_charset", "_detect_casing",
                                  "_detect_collations", "table_names"})
               \/ result'.op \in {"execute", "force_charset"}]_vars

\* A detection has returned the cached charset without a statement although
\* the session's charset has changed since, and the other connection has
\* entries of its own.
C12_Witness ==
  \E conn \in Conns :
    /\ lastCall.name = "_detect_charset" /\ lastCall.conn = conn
    /\ lastCall.statements = {}
    /\ lastCall.charset = "latin1" /\ info[conn].charset = "latin1"
    /\ info[conn].force = ""
    /\ character_set_results[conn] = "utf8"

(***************************************************************************)
(* Properties of do_commit, do_rollback, has_table and reflecttable        *)
(***************************************************************************)
\* The version is older than 3.23.15, a version without its third number
\* being the first of its series.
OlderThan32315(v) ==
  \/ v[1] < 3
  \/ v[1] = 3 /\ v[2] < 23
  \/ v[1] = 3 /\ v[2] = 23 /\ (IF Len(v) >= 3 THEN v[3] ELSE 0) < 15

\* C13: do_commit and do_rollback return when the driver's call succeeds;
\* when it fails they return exactly when the server is older than 3.23.15
\* and the first argument of the error is the number 1064, and otherwise the
\* same error reaches the caller.
C13_OnlyLegacy1064Swallowed ==
  result.op \in {"do_commit", "do_rollback"} =>
    IF ~result.value.raised THEN result.status = "returned"
    ELSE IF /\ OlderThan32315(server_version_info)
            /\ result.value.args # <<>>
            /\ result.value.args[1] = IntArg(1064)
      THEN result.status = "returned"
    ELSE result.status = "raised" /\ result.exc = result.value

\* A rollback that failed with 1064 on a 3.23.14 server has returned.
C13_Witness ==
  /\ result.op = "do_rollback" /\ result.status = "returned"
  /\ result.value.raised /\ result.value.args[1] = IntArg(1064)
  /\ server_version_info = <<3, 23, 14>>

\* A call that sent DESCRIBE or SHOW CREATE TABLE.
Probed(op) == calls' = calls + 1 /\ result'.op = op

\* C14: has_table returns True when DESCRIBE succeeds with at least one
\* row and False when the server reports error 1146, raises every other SQL
\* error again with its code, never returns anything but True or False,
\* and leaves no result set of the probe open.
C14_HasTableBoolean ==
  [][Probed("has_table") =>
       /\ (~lastCall'.answer.error /\ lastCall'.answer.rows > 0
             => result'.status = "returned" /\ result'.value = "True")
       /\ (lastCall'.answer.error /\ lastCall'.answer.code = 1146
             => result'.status = "returned" /\ result'.value = "False")
       /\ (lastCall'.answer.error /\ lastCall'.answer.code # 1146
             => /\ result'.status = "raised" /\ result'.exc = "SQLError"
                /\ result'.code = lastCall'.answer.code)
       /\ (result'.status = "returned" => result'.value \in {"True", "False"})
       /\ result'.rs # "open"
       /\ (result'.rs = "closed" <=> ~lastCall'.answer.error)]_vars

\* Witness for C14: has_table has raised the SQLError of a server that went
\* away, after a SHOW CREATE TABLE or DESCRIBE of an earlier call.
C14_Witness ==
  /\ result.op = "has_table" /\ result.status = "raised"
  /\ result.exc = "SQLError" /\ result.code = 2006
  /\ lastCall.answer = SQLError(2006)
  /\ calls > 1

\* SHOW CREATE TABLE found no table: error 1146, or a result without a row.
NotFound(answer) ==
  \/ answer.error /\ answer.code = 1146
  \/ ~answer.error /\ answer.text = <<>>

\* C15: reflecttable raises NoSuchTableError when SHOW CREATE TABLE raises
\* error 1146 or returns no row, raises any other SQL error again with its
\* code, and in these cases the table is as Table(name, metadata) made it
\* and every other table is as it was.
C15_NotFoundLeavesTableAlone ==
  [][Probed("autoload") /\ (lastCall'.answer.error \/ NotFound(lastCall'.answer))
       => /\ result'.status = "raised"
          /\ (NotFound(lastCall'.answer) => result'.exc = "NoSuchTableError")
          /\ (~NotFound(lastCall'.answer)
                => /\ result'.exc = "SQLError"
                   /\ result'.code = lastCall'.answer.code)
          /\ result'.rs # "open"
          /\ objs'[result'.tid] = NewTable(result'.tid.name, <<>>)
          /\ \A k \in DOMAIN objs : objs'[k] = objs[k]]_vars

\* Witness for C15: reflecttable has raised NoSuchTableError for a SHOW
\* CREATE TABLE that returned no row, and the table has its given name and
\* nothing else.
C15_Witness ==
  /\ result.op = "autoload" /\ result.status = "raised"
  /\ result.exc = "NoSuchTableError"
  /\ lastCall.name = "reflecttable" /\ lastCall.answer = Rows(0, <<>>)
  /\ objs[result.tid] = NewTable(<<"A">>, <<>>)

(***************************************************************************)
(* Properties of the types                                                 *)
(***************************************************************************)
\* Exactly one of the two arguments is given.
OneOfTwo(args) == args[1].given # args[2].given

\* A constructor that checks its arguments: an ArgumentError for one of
\* the two, the instance with both as given otherwise.
BothOrNeither ==
  IF OneOfTwo(result.value.args)
    THEN result.status = "raised" /\ result.exc = "ArgumentError"
    ELSE /\ result.status = "returned"
         /\ result.value.out.precision = result.value.args[1]
         /\ result.value.out.scale = result.value.args[2]

\* DOUBLE, FLOAT and REAL alike fail for one of precision and scale and
\* succeed for both or neither.
C16_FloatFamilyBothOrNeither ==
  result.op \in {"MSDouble", "MSReal", "MSFloat"} => BothOrNeither

\* C16: DOUBLE and REAL fail with an ArgumentError when exactly one of
\* precision and scale is given and succeed with both or neither; FLOAT
\* succeeds for every combination and keeps the two as given.
C16_DoubleRealBothOrNeither ==
  /\ result.op \in {"MSDouble", "MSReal"} => BothOrNeither
  /\ result.op = "MSFloat"
       => /\ result.status = "returned"
          /\ result.value.out.precision = result.value.args[1]
          /\ result.value.out.scale = result.value.args[2]

\* Witness for C16: REAL with a scale and no precision has raised the
\* ArgumentError.
C16_Witness ==
  /\ result.op = "MSReal" /\ result.exc = "ArgumentError"
  /\ result.value.args = <<None, Given(2)>>

\* Every literal of enums starts and ends with the quote character q.
Surrounded(enums, q) ==
  \A k \in DOMAIN enums :
    enums[k] # <<>> /\ enums[k][1] = q /\ enums[k][Len(enums[k])] = q

\* C17: with quoting 'auto' an ENUM is in quoted mode exactly when every
\* literal starts and ends with the same quote character, and then holds
\* each literal without its first and last character and with its doubled
\* quotes single; any other list is in unquoted mode and kept as given.
C17_EnumAutoQuoting ==
  result.op = "MSEnum" =>
    LET enums == result.value.args
        built == result.value.out
    IN IF \E q \in {SQ, DQ} : Surrounded(enums, q)
         THEN /\ built.quoting = "quoted"
              /\ built.enums =
                   [k \in DOMAIN enums |->
                      Undouble(Slice(enums[k], 2, Len(enums[k]) - 1),
                               enums[k][1])]
         ELSE built.quoting = "unquoted" /\ built.enums = enums

\* The column _add_column appended, for a call that appended one.
Reflected == result.value.out.table.columns[1]

\* C18: a tinyint column whose argument is the text 1 is reflected as the
\* boolean type without positional arguments; a tinyint column with any
\* other width is the tiny-integer type with that width, and without a
\* width the tiny-integer type without one.
C18_TinyintOneIsBoolean ==
  result.op = "add_column" /\ result.value.args.coltype = "tinyint" =>
    LET d == result.value.args
    IN /\ result.status = "returned"
       /\ Len(result.value.out.table.columns) = 1
       /\ Reflected.type.tag = IF d.arg = <<"1">> THEN "boolean" ELSE "tinyint"
       /\ Reflected.type.args =
            IF d.arg = <<"1">> \/ d.arg = <<>> THEN <<>> ELSE <<IntOf(d.arg[1])>>

\* Witness for C18: tinyint(01) has been reflected as a tiny integer of
\* width 1.
C18_Witness ==
  /\ result.op = "add_column" /\ result.status = "returned"
  /\ result.value.args.coltype = "tinyint" /\ result.value.args.arg = <<"01">>
  /\ Reflected.type.tag = "tinyint" /\ Reflected.type.args = <<1>>

\* The reflected column has what the clauses of the definition d say.
Captures(d) ==
  /\ result.status = "returned"
  /\ Len(result.value.out.table.columns) = 1
  /\ Reflected.type.unsigned = d.unsigned
  /\ Reflected.type.zerofill = d.zerofill
  /\ Reflected.type.charset = d.charset
  /\ Reflected.type.collate = d.collate
  /\ Reflected.nullable = ~d.notnull
  /\ (Reflected.autoincrement = "True" <=> d.autoincr)
  /\ (Reflected.default.kind # "none" <=> d.default \notin {<<>>, <<"NULL">>})

\* C20: for a column line of a name, a type and any of the clauses unsigned,
\* zerofill, CHARACTER SET, COLLATE, NOT NULL, DEFAULT, AUTO_INCREMENT and
\* COMMENT in this order, the column is not nullable exactly when NOT NULL
\* is there, autoincrement exactly when AUTO_INCREMENT is, has a default
\* exactly when a DEFAULT other than NULL is, and its type has the flags,
\* the character set and the collation the line names.
C20_ClausesCaptured ==
  result.op = "add_column" => Captures(result.value.args)

\* The instance the reflected column has.
Recovered ==
  Instance(ischema_class(Reflected.type.tag), Reflected.type.args,
           Reflected.type.unsigned, Reflected.type.zerofill)

\* C19: the text the type compiler writes for an instance, read by
\* _add_column with the type word taken in lower case, gives an instance of
\* the same class with the same display width, length or precision, the
\* same scale and the same unsigned and zerofill flags.
C19_CompileReflectRoundTrip ==
  result.op = "round_trip" /\ result.value.args.lowered =>
    /\ result.status = "returned"
    /\ Len(result.value.out.table.columns) = 1
    /\ Recovered = result.value.args.type_

(***************************************************************************)
(* Properties of the lines of a table                                      *)
(***************************************************************************)
\* C21: for a FOREIGN KEY line with ON DELETE and ON UPDATE clauses of the
\* actions RESTRICT, CASCADE, SET NULL and NO ACTION, the parsed
\* specification and the foreign key on the table have the line's ondelete
\* and onupdate, unset for a clause the line does not have.
C21_ReferentialActionsKept ==
  result.op = "set_constraints" =>
    LET d == result.value.args
        out == result.value.out
    IN /\ result.status = "returned" /\ out.type = "constraint"
       /\ out.spec.ondelete = d.ondelete /\ out.spec.onupdate = d.onupdate
       /\ Len(out.table.fks) = 1
       /\ out.table.fks[1].ondelete = d.ondelete
       /\ out.table.fks[1].onupdate = d.onupdate

\* The line the loop of reflect is at is a column line the allow-list lets
\* through whose type word is no key of the catalog.
AtUnknownType ==
  /\ stack # <<>> /\ Phase(Top) = "lines"
  /\ LET line == Top.lines[Top.i]
     IN /\ StartsWith(line, <<SP, SP, Top.q>>)
        /\ Len(line) >= 7 /\ line[7] \notin ischema_names
        /\ ~(OnlyTruthy(Top.only) /\ <<line[4]>> \notin Top.only.names)

\* C22: the iteration of reflect for a column line whose type word is no
\* key of the catalog appends a column of that name with the NullType,
\* warns that it did not recognize the type, raises nothing and goes on to
\* the next line.
C22_UnknownTypeIsNullType ==
  [][AtUnknownType =>
       LET f == Top
           line == f.lines[f.i]
           before == objs[f.tid].columns
           after == objs'[f.tid].columns
       IN /\ Len(after) = Len(before) + 1
          /\ SubSeq(after, 1, Len(before)) = before
          /\ after[Len(after)].name = <<line[4]>>
          /\ after[Len(after)].type.tag = "NullType"
          /\ diag' = Append(diag, Diag("warn", "Did not recognize type", line))
          /\ result'.status = "running"
          /\ stack' # <<>>
          /\ stack'[Len(stack)].i = f.i + 1]_vars

\* Witness for C22: the call has returned a table whose first column, g, has
\* the NullType and whose second column, a, is an integer.
C22_Witness ==
  /\ Finished /\ result.status = "returned"
  /\ Len(Asked.columns) = 2
  /\ Asked.columns[1].name = <<"g">> /\ Asked.columns[1].type.tag = "NullType"
  /\ Asked.columns[2].name = <<"a">> /\ Asked.columns[2].type.tag = "int"

\* The options stored for a set of options: one pair for every option whose
\* value is a word, the three of _set_options apart.
StoredOptions(opts) ==
  {<<[name |-> o.key, pad |-> 0], o.val>> :
     o \in {x \in opts : ~x.quoted /\ x.key \notin {n.name : n \in Nope}}}

\* The options of o in the order of OptionList.
InListOrder(o) ==
  SelectSeq(OptionList, LAMBDA x : \E i \in DOMAIN o : o[i] = x)

RECURSIVE Lstrip(_)
Lstrip(text) ==
  IF text # <<>> /\ text[1] \in {SP, NL} THEN Lstrip(Tail(text)) ELSE text

\* C24: limit_clause renders nothing for a select with neither limit nor
\* offset, 'LIMIT <limit>' with a limit only, 'LIMIT <offset>, <limit>' with
\* both and 'LIMIT <offset>, 18446744073709551615' with an offset only.
C24_LimitClause ==
  result.op = "limit_clause" =>
    LET limit == result.value.args.limit
        offset == result.value.args.offset
        text == result.value.out.text
    IN /\ result.status = "returned"
       /\ (~limit.given /\ ~offset.given) => text = <<>>
       /\ (limit.given /\ ~offset.given) =>
            Lstrip(text) = <<"LIMIT", SP, Decimal(limit.n)>>
       /\ (limit.given /\ offset.given) =>
            Lstrip(text) = <<"LIMIT", SP, Decimal(offset.n), CM, SP, Decimal(limit.n)>>
       /\ (~limit.given /\ offset.given) =>
            Lstrip(text) = <<"LIMIT", SP, Decimal(offset.n), CM, SP,
                             "18446744073709551615">>

\* Witness for C24: a select with the offset 0 and no limit got
\* 'LIMIT 0, 18446744073709551615'.
C24_Witness ==
  /\ result.op = "limit_clause"
  /\ result.value.args = [limit |-> None, offset |-> Given(0)]
  /\ Lstrip(result.value.out.text) = <<"LIMIT", SP, "0", CM, SP, NoLimit>>

\* The number of '%' in text.
Percents(text) == Cardinality({i \in DOMAIN text : text[i] = "%"})

\* C25: post_process_text returns, for every text, the text with every '%'
\* doubled: halving the pairs of '%' of what it returns gives the text back
\* and there are twice as many '%'; it warns when the text has '%%' in it,
\* and returns all the same.
C25_PercentDoubled ==
  result.op = "post_process_text" =>
    LET text == result.value.args
        out == result.value.out
    IN /\ result.status = "returned"
       /\ Undouble(out.text, "%") = text
       /\ Percents(out.text) = 2 * Percents(text)
       /\ Len(out.text) = Len(text) + Percents(text)
       /\ (\E i \in 1..(Len(text) - 1) : SubSeq(text, i, i + 1) = <<"%", "%">>)
            => out.warned

\* Witness for C25: 'a%%a%' came back as 'a%%%%a%%', with a warning.
C25_Witness ==
  /\ result.op = "post_process_text"
  /\ result.value.args = <<"a", "%", "%", "a", "%">>
  /\ result.value.out.text = <<"a", "%", "%", "%", "%", "a", "%", "%">>
  /\ result.value.out.warned
  /\ result.status = "returned"

\* The text is 'CAST(' clause ' AS ' and something more, closed by ')'.
IsCastOf(text, clause) ==
  /\ Len(text) > Len(clause) + 6
  /\ SubSeq(text, 1, Len(clause) + 5) = <<"CAST", LP>> \o clause \o <<SP, "AS", SP>>
  /\ text[Len(text)] = RP

\* C26: visit_cast returns without raising; what it returns is
\* 'CAST(<expr> AS <type>)' when visit_typeclause has a spelling for the
\* type, <type> being that spelling, and the expression as it is when
\* visit_typeclause has none, which is the case of FLOAT and DOUBLE, BIT,
\* BOOLEAN, ENUM and SET.
C26_CastOrExpression ==
  result.op = "visit_cast" =>
    LET type_ == result.value.args.type_
        clause == result.value.args.clause
        text == result.value.out.text
        spelling == visit_typeclause(type_)
    IN /\ result.status = "returned"
       /\ ~spelling.none =>
            /\ IsCastOf(text, clause)
            /\ SubSeq(text, Len(clause) + 6, Len(text) - 1) = spelling.text
       /\ spelling.none => text = clause
       /\ IsCastOf(text, clause) <=> ~spelling.none
       /\ type_.cls \in {"MSFloat", "MSDouble", "MSBit", "MSBoolean", "MSEnum", "MSSet"}
            => text = clause

\* Witness for C26: a cast of x to an ENUM came back as x.
C26_Witness ==
  /\ result.op = "visit_cast"
  /\ result.status = "returned"
  /\ result.value.args.clause = <<"x">>
  /\ result.value.args.type_.cls = "MSEnum"
  /\ result.value.out.text = <<"x">>

\* The values an ENUM declared with the literals enums takes: the literals,
\* without the quotes when all of them are quoted.
Declared(enums) ==
  IF enums # <<>> /\ \A k \in DOMAIN enums : enums[k][1] = SQ /\ enums[k][Len(enums[k])] = SQ
    THEN {SubSeq(enums[k], 2, Len(enums[k]) - 1) : k \in DOMAIN enums}
    ELSE {enums[k] : k \in DOMAIN enums}

\* C27: the bind processor of an ENUM raises InvalidRequestError exactly
\* when the type is strict and the value is neither None nor one of the
\* declared values; otherwise it returns what the processor of the parent
\* class makes of the value, or the value when there is none.
C27_StrictEnumBind ==
  result.op = "enum_bind" =>
    LET a == result.value.args
        out == result.value.out
        bad == a.strict /\ ~a.value.none /\ a.value.s \notin Declared(a.enums)
    IN /\ (result.status = "raised") <=> bad
       /\ bad => result.exc = "InvalidRequestError"
       /\ ~bad => /\ result.status = "returned"
                  /\ out.value.none = a.value.none
                  /\ out.value.s = a.value.s
                  /\ out.value.converted = a.has_super

\* Witness for C27: a strict ENUM('a','b') raised for the value 'c'.
C27_Witness ==
  /\ result.op = "enum_bind"
  /\ result.value.args.enums = << <<"a">>, <<"b">> >>
  /\ result.value.args.strict
  /\ result.value.args.value = Value(<<"c">>)
  /\ result.status = "raised" /\ result.exc = "InvalidRequestError"

\* C28: with use_ansiquotes unset, _autoset_identifier_style sets it to True
\* exactly when the value of sql_mode is a number whose bit of value 4 is
\* set or a list of names with ANSI_QUOTES in it, and to False when there is
\* no row or the value is empty.
C28_AnsiQuotesDetected ==
  result.op = "autoset_identifier_style" =>
    LET row == result.value.args.row
        style == result.value.out.style
        numeric == row.has /\ Len(row.mode) = 1 /\ IsDigits(row.mode[1])
        ansi == IF numeric THEN IntOf(row.mode[1]) % 8 >= 4
                ELSE row.has /\ \E i \in DOMAIN row.mode : row.mode[i] = "ANSI_QUOTES"
    IN result.value.args.useansi = "None" =>
         /\ result.status = "returned"
         /\ style.flag \in {"True", "False"}
         /\ style.flag = "True" <=> ansi
         /\ (~row.has \/ row.mode = <<>>) => style.flag = "False"

\* Witness for C28: with the flag unset and the sql_mode 5 the style is
\* ANSI.
C28_Witness ==
  /\ result.op = "autoset_identifier_style"
  /\ result.value.args.useansi = "None"
  /\ result.value.args.row = [has |-> TRUE, mode |-> <<"5">>]
  /\ result.value.out.style.flag = "True"

\* The columns whose specification has AUTO_INCREMENT in it.
Incremented(specs) ==
  {k \in DOMAIN specs : \E i \in DOMAIN specs[k] : specs[k][i] = "AUTO_INCREMENT"}

\* C29: of the column specifications of one CREATE TABLE at most one has
\* AUTO_INCREMENT, that of the first column of the primary key with
\* autoincrement set, an Integer type and no foreign keys; a column with
\* autoincrement=False, a column outside the primary key and every column
\* after that first one have none.
C29_OneAutoIncrement ==
  result.op = "get_column_specification" =>
    LET columns == result.value.args
        marked == Incremented(result.value.out.specs)
        fit(k) == /\ columns[k].primary_key /\ columns[k].autoincrement
                  /\ columns[k].integer /\ ~columns[k].foreign_keys
    IN /\ result.status = "returned"
       /\ Cardinality(marked) <= 1
       /\ \A k \in DOMAIN columns :
            k \in marked <=> (fit(k) /\ \A j \in 1..(k - 1) : ~fit(j))
       /\ \A k \in marked : columns[k].autoincrement /\ columns[k].primary_key

\* Witness for C29: of the primary key (gid, id), gid with
\* autoincrement=False, id has AUTO_INCREMENT and gid has not; a third
\* column of the key that fits as well has none.
C29_Witness ==
  /\ result.op = "get_column_specification"
  /\ Len(result.value.args) = 3
  /\ result.value.args[1] = [primary_key |-> TRUE, autoincrement |-> FALSE,
                              integer |-> TRUE, foreign_keys |-> FALSE]
  /\ result.value.args[2] = [primary_key |-> TRUE, autoincrement |-> TRUE,
                              integer |-> TRUE, foreign_keys |-> FALSE]
  /\ result.value.args[3] = result.value.args[2]
  /\ Incremented(result.value.out.specs) = {2}

(***************************************************************************)
(* Properties of two-phase transactions                                    *)
(***************************************************************************)
\* The statements a call of a two-phase method has to execute.
Expected(op, is_prepared) ==
  CASE op = "do_begin_twophase" -> <<"XA BEGIN">>
    [] op = "do_prepare_twophase" -> <<"XA END", "XA PREPARE">>
    [] op = "do_rollback_twophase" ->
         IF is_prepared THEN <<"XA ROLLBACK">> ELSE <<"XA END", "XA ROLLBACK">>
    [] op = "do_commit_twophase" ->
         IF is_prepared THEN <<"XA COMMIT">>
         ELSE <<"XA END", "XA PREPARE", "XA COMMIT">>

\* Every XA COMMIT of the log of xid that was not declared prepared comes
\* right after an XA PREPARE the server accepted, itself right after an XA
\* END.
CommitAfterPrepare(xid) ==
  \A i \in DOMAIN xa[xid] :
    (xa[xid][i].statement = "XA COMMIT" /\ ~xa[xid][i].is_prepared) =>
      /\ i >= 3
      /\ xa[xid][i - 1].statement = "XA PREPARE" /\ xa[xid][i - 1].ok
      /\ xa[xid][i - 2].statement = "XA END" /\ xa[xid][i - 2].ok

\* C30: a call of a two-phase method executes, for its xid and for no
\* other, the statements of its sequence in order (XA END, XA PREPARE for
\* do_prepare_twophase; XA END, XA PREPARE, XA COMMIT or XA COMMIT alone for
\* do_commit_twophase; XA END, XA ROLLBACK or XA ROLLBACK alone for
\* do_rollback_twophase), all of them when it returns and up to the one that
\* raised otherwise; and at all times no XA COMMIT of an xid not declared
\* prepared lacks the XA PREPARE before it.
C30_TwoPhaseOrder ==
  /\ [](\A xid \in Xids : CommitAfterPrepare(xid))
  /\ [][xa' # xa =>
          LET xid == result'.value.xid
              new == SubSeq(xa'[xid], Len(xa[xid]) + 1, Len(xa'[xid]))
              all == Expected(result'.op, result'.value.is_prepared)
          IN /\ \A x \in Xids \ {xid} : xa'[x] = xa[x]
             /\ SubSeq(xa'[xid], 1, Len(xa[xid])) = xa[xid]
             /\ new # <<>> /\ Len(new) <= Len(all)
             /\ \A k \in DOMAIN new : new[k].statement = all[k]
             /\ \A k \in 1..(Len(new) - 1) : new[k].ok
             /\ result'.status = "returned" <=> (Len(new) = Len(all) /\ new[Len(new)].ok)
             /\ result'.status = "returned" \/ ~new[Len(new)].ok]_vars

\* Witness for C30: x1 was begun, then committed without having been
\* prepared, and its log is XA BEGIN, XA END, XA PREPARE, XA COMMIT.
C30_Witness ==
  /\ Len(xa["x1"]) = 4
  /\ [k \in 1..4 |-> xa["x1"][k].statement] =
       <<"XA BEGIN", "XA END", "XA PREPARE", "XA COMMIT">>
  /\ \A k \in 1..4 : xa["x1"][k].ok
  /\ ~xa["x1"][4].is_prepared
  /\ result.op = "do_commit_twophase" /\ result.status = "returned"

====
